---- MODULE Spec2Model ----
(***************************************************************************)
(* appshots: the UI discovery crawler (the XCUITest that                    *)
(* UIExplorer.generate_explorer_test writes), the multi-state driver        *)
(* (UIExplorer.explore) and the hybrid pipeline (HybridCapture).            *)
(*                                                                          *)
(* The app under test is the environment.  A screen is what the             *)
(* accessibility queries of the test return for it: static texts, buttons   *)
(* and cells.  Labels are sequences of UTF-8 bytes, so that screenHash is   *)
(* computed as the code computes it.                                        *)
(***************************************************************************)
EXTENDS Integers, Sequences, FiniteSets, TLC

(***************************************************************************)
(* Bounds of the model.                                                     *)
(***************************************************************************)
\* number of screens of the modelled app (0 .. NumScreens - 1)
NumScreens == 3
\* largest max_depth handed to generate_explorer_test
MaxDepthArg == 3
\* the feed screen stops counting here
CtrMax == 45
\* most labels a snapshot handed to screenHash holds besides a full prefix
MaxTail == 1
\* most elements of one role, and most tab-bar buttons, the dumped app exposes
MaxElements == 51
MaxTabs == 11
\* most buttons on the screen whose elements come and go during a read
MaxShown == 3
\* most screens in the source analysis handed to analyze_source's extraction of states
MaxAnalysed == 3
\* most screens handed to capture_all
MaxCaptured == 2
\* largest number of defaults dicts handed to explore
NumPasses == 2

(***************************************************************************)
(* Program constants.                                                       *)
(***************************************************************************)
maxScreens == 30
ListCap == 30
max_actions == 15
CellCap == 10
TextPrefix == 20
ButtonPrefix == 10
KeyItems == 3
KeyChars == 50

(***************************************************************************)
(* Labels (UTF-8 bytes).                                                    *)
(***************************************************************************)
L_Back == <<66, 97, 99, 107>>
L_Cancel == <<67, 97, 110, 99, 101, 108>>
L_Done == <<68, 111, 110, 101>>
L_Close == <<67, 108, 111, 115, 101>>
L_xmark == <<120, 109, 97, 114, 107>>
L_Home == <<72, 111, 109, 101>>
L_Settings == <<83, 101, 116>>
L_Help == <<72, 101, 108, 112>>
L_More == <<77, 111, 114, 101>>
L_Go == <<71, 111>>
L_Next == <<78, 101, 120, 116>>
L_Plus == <<43>>
L_Count == <<78>>
L_Row == <<82, 111, 119>>

\* decimal digits of n, as bytes
RECURSIVE Digits(_)
Digits(n) == IF n < 10 THEN <<48 + n>> ELSE Digits(n \div 10) \o <<48 + (n % 10)>>

Btn(label, navbar) == [label |-> label, hittable |-> TRUE, navbar |-> navbar]
Cell(label) == [label |-> label, hittable |-> TRUE]

(***************************************************************************)
(* The app under test.  Screen 0 is a home screen, the even screens from 2  *)
(* on are pushed pages with a navigation-bar back button and the odd ones   *)
(* from 3 on sheets with a Close button: any of them may lead to any other. *)
(* Screen 1 is the single screen of a second app, a feed whose text counts  *)
(* the taps and page swipes made on it (the count is persisted).            *)
(***************************************************************************)
Screens == 0 .. NumScreens - 1
Home == 0
Feed == 1
Pages == Screens \ {Feed}

(***************************************************************************)
(* A third kind of app: a home screen with the two buttons Settings and     *)
(* Help, each pushing a static screen with a navigation-bar back button.    *)
(* The back button is labelled "Back" in one app and carries the title of   *)
(* the screen it returns to in the other.                                   *)
(***************************************************************************)
A_Home == 10
A_Settings == A_Home + 1
A_Help == A_Home + 2
T_Home == A_Home + 10
T_Settings == T_Home + 1
T_Help == T_Home + 2
StaticHomes == {A_Home, T_Home}

(***************************************************************************)
(* A fourth app: until the preference onboardingDone is set it shows one    *)
(* onboarding screen whose button leads nowhere, afterwards a home with the *)
(* three tabs Home, Settings and More.  The More tab lists one row, which   *)
(* pushes a detail screen with a navigation-bar back button.                *)
(***************************************************************************)
B_Onboarding == 30
B_Tab1 == B_Onboarding + 1
B_Tab2 == B_Onboarding + 2
B_Tab3 == B_Onboarding + 3
B_Detail == B_Onboarding + 4
B_Tabs == {B_Tab1, B_Tab2, B_Tab3}
TabBar == <<Btn(L_Home, FALSE), Btn(L_Settings, FALSE), Btn(L_More, FALSE)>>

(***************************************************************************)
(* A fifth app: its launch screen has the buttons Go, Help and Close (Help  *)
(* and Close change nothing there).  Go pushes a page with a navigation-bar *)
(* back button and the buttons More and Next; More presents a screen        *)
(* without any control that no swipe dismisses, Next changes nothing.       *)
(***************************************************************************)
C_Home == 40
C_Page == C_Home + 1
C_Sheet == C_Home + 2
C_Screens == {C_Home, C_Page, C_Sheet}

StaticScreens ==
    {A_Home, A_Settings, A_Help, T_Home, T_Settings, T_Help}
        \cup {B_Onboarding, B_Detail} \cup B_Tabs \cup C_Screens
HomeOf(s) == IF s < T_Home THEN A_Home ELSE T_Home
BackLabel(s) == IF s < T_Home THEN L_Back ELSE L_Home

Snapshot(s, k) ==
    CASE s = Home ->
           [texts |-> <<L_Home>>,
            buttons |-> <<Btn(L_Settings, FALSE), Btn(L_Help, FALSE), Btn(L_Go, FALSE)>>,
            cells |-> <<>>]
      [] s = Feed ->
           [texts |-> <<L_Count, Digits(k)>>,
            buttons |-> <<Btn(L_Plus, FALSE), Btn(L_Plus, FALSE), Btn(L_Plus, FALSE),
                          Btn(L_Plus, FALSE), Btn(L_Plus, FALSE)>>,
            cells |-> <<Cell(L_Row)>>]
      [] s \in StaticHomes ->
           [texts |-> <<L_Home>>,
            buttons |-> <<Btn(L_Settings, FALSE), Btn(L_Help, FALSE)>>,
            cells |-> <<>>]
      [] s \in {A_Settings, T_Settings} ->
           [texts |-> <<L_Settings>>, buttons |-> <<Btn(BackLabel(s), TRUE)>>, cells |-> <<>>]
      [] s \in {A_Help, T_Help} ->
           [texts |-> <<L_Help>>, buttons |-> <<Btn(BackLabel(s), TRUE)>>, cells |-> <<>>]
      [] s = B_Onboarding ->
           [texts |-> <<L_Count>>, buttons |-> <<Btn(L_Next, FALSE)>>, cells |-> <<>>]
      [] s = B_Tab1 -> [texts |-> <<L_Home>>, buttons |-> TabBar, cells |-> <<>>]
      [] s = B_Tab2 -> [texts |-> <<L_Settings>>, buttons |-> TabBar, cells |-> <<>>]
      [] s = B_Tab3 -> [texts |-> <<L_More>>, buttons |-> TabBar, cells |-> <<Cell(L_Row)>>]
      [] s = B_Detail ->
           [texts |-> <<L_Row>>, buttons |-> <<Btn(L_Back, TRUE)>> \o TabBar, cells |-> <<>>]
      [] s = C_Home ->
           [texts |-> <<L_Home>>,
            buttons |-> <<Btn(L_Go, FALSE), Btn(L_Help, FALSE), Btn(L_Close, FALSE)>>,
            cells |-> <<>>]
      [] s = C_Page ->
           [texts |-> <<L_Settings>>,
            buttons |-> <<Btn(L_Back, TRUE), Btn(L_More, FALSE), Btn(L_Next, FALSE)>>,
            cells |-> <<>>]
      [] s = C_Sheet -> [texts |-> <<L_More>>, buttons |-> <<>>, cells |-> <<>>]
      [] s \in Screens /\ s >= 2 /\ s % 2 = 0 ->
           [texts |-> <<L_Settings, Digits(s)>>,
            buttons |-> <<Btn(L_Back, TRUE), Btn(L_More, FALSE), Btn(L_Next, FALSE)>>,
            cells |-> <<Cell(L_Row)>>]
      [] OTHER ->
           [texts |-> <<L_Help, Digits(s)>>,
            buttons |-> <<Btn(L_Go, FALSE), Btn(L_Next, FALSE), Btn(L_Close, FALSE)>>,
            cells |-> <<>>]

(***************************************************************************)
(* screenHash: djb2 over the first 20 static-text labels and the first 10   *)
(* button labels joined by "|", in UInt64 with wrapping arithmetic,         *)
(* printed in radix 16.  The 64-bit value is kept as four 16-bit limbs,     *)
(* most significant first; the hexadecimal string is one-to-one with it.    *)
(***************************************************************************)
Prefix(seq, n) == SubSeq(seq, 1, IF Len(seq) < n THEN Len(seq) ELSE n)

RECURSIVE Joined(_)
Joined(labels) ==
    IF labels = <<>> THEN <<>>
    ELSE IF Len(labels) = 1 THEN labels[1]
    ELSE labels[1] \o <<124>> \o Joined(Tail(labels))

Limb == 65536

\* ((hash << 5) &+ hash) &+ c  in UInt64
HashStep(h, c) ==
    LET v0 == h[4] * 33 + c
        v1 == h[3] * 33 + (v0 \div Limb)
        v2 == h[2] * 33 + (v1 \div Limb)
        v3 == h[1] * 33 + (v2 \div Limb)
    IN  <<v3 % Limb, v2 % Limb, v1 % Limb, v0 % Limb>>

\* the loop over bytes[lo .. hi]: the first half, then the second half from
\* the four limbs the first half left
RECURSIVE Djb2Range(_, _, _, _)
Djb2Range(h, bytes, lo, hi) ==
    IF lo > hi THEN h
    ELSE IF lo = hi THEN HashStep(h, bytes[lo])
    ELSE LET mid == (lo + hi) \div 2
             half == Djb2Range(h, bytes, lo, mid)
         IN  CASE Len(half) = 4 -> Djb2Range(half, bytes, mid + 1, hi)

Djb2(h, bytes) == Djb2Range(h, bytes, 1, Len(bytes))

\* the content without the two prefix(n)
HashInputAll(snap) ==
    Joined(snap.texts \o [i \in 1 .. Len(snap.buttons) |-> snap.buttons[i].label])

HashInput(snap) ==
    Joined(Prefix(snap.texts, TextPrefix)
           \o [i \in 1 .. Len(Prefix(snap.buttons, ButtonPrefix)) |-> snap.buttons[i].label])

screenHash(snap) == Djb2(<<0, 0, 0, 5381>>, HashInput(snap))

\* the fingerprint of every state of the app, computed once
Fingerprint == [s \in Screens \cup StaticScreens |-> [k \in 0 .. CtrMax |-> screenHash(Snapshot(s, k))]]

(***************************************************************************)
(* State.                                                                   *)
(***************************************************************************)
VARIABLES
    root,          \* the screen the app shows after a cold launch
    maxDepth,      \* max_depth written into the generated test
    cur,           \* the screen the app shows
    ctr,           \* the feed's persisted count
    pc,            \* position in test_explore
    seenHashes,    \* ExplorerTests.seenHashes
    screenCount,   \* ExplorerTests.screenCount
    recorded,      \* the Screens saved by recordScreenIfNew, in order
    stack,         \* the open exploreCurrentScreen calls, innermost last
    phase2Hash,    \* hashBefore of test_explore (phase 2)
    sinceLaunch,   \* UI actions performed since the last launch (counted up to MaxDepthArg)
    pipeline,      \* "explore" (UIExplorer.explore), "hybrid" (HybridCapture.run) or "none"
    ppc,           \* position in the pipeline
    analysis,      \* source["screens"] of analyze_source
    states,        \* defaults_states of explore, source["states"] of analyze_source
    stateIdx,      \* the pass of the driver loop, counted from 1
    keyIdx,        \* the item set_defaults is at, counted from 1
    prefs,         \* the app's UserDefaults domain on the simulator
    outDir,        \* the files of output_dir (explore) or tree_dir (dump_trees)
    wrote,         \* the files the test run of the pass under way has written
    executed,      \* the passes whose test was run
    failures,      \* the passes in which a command returned a non-zero status
    all_results,   \* all_results of explore
    trees,         \* trees of dump_trees
    plan,          \* the screens of the YAML that plan_navigation returns
    toCapture,     \* reachable of capture: the screens handed to capture_all
    verdicts,      \* the unreachable screens that capture logs, each with its reason
    capIdx,        \* the screen capture_all is at, counted from 1
    results,       \* results of capture_all
    snapA,         \* a snapshot handed to screenHash
    snapB,         \* another snapshot handed to screenHash
    hashA,         \* screenHash of snapA, once computed
    hashB,         \* screenHash of snapB, once computed
    sim,           \* the app instance in the simulator: "none", "leftover" (running
                   \* since before the last launch command) or "fresh" (started by it)
    runPc,         \* two concurrent runs of explore: the position of each
    runnerDir,     \* /tmp/appshots-explorer: whose project, test source and build it
                   \* holds (0: none) and whose tests wrote the files in Screenshots
    taken,         \* per run, whose screenshots it collected as its results
    dumpApp,       \* test_dump_tree: the app, as the number of elements of every role,
                   \* the number of tab-bar buttons and the page shown after the launch
    dumpPc,        \* position in test_dump_tree
    tabIdx,        \* t of the per-tab loop: the tabs visited so far
    shown,         \* the tab or page the app shows
    gestures,      \* taps and swipes test_dump_tree has performed
    inspected,     \* per role, the elements test_dump_tree has queried
    elems,         \* a screen in motion: the buttons it shows at this moment, in order
    rpc,           \* position of the test in the reads and taps on that screen
    ri,            \* the loop index i (over candidates in the tap loop, from 1)
    rn,            \* the upper end of the loop, read from .count when the loop began
    lines,         \* elements of saveElementList
    cands,         \* buttonLabels of exploreCurrentScreen
    tapped,        \* the buttons that received a tap
    xcFailures,    \* the failures XCTest has recorded in the test
    test,          \* the generated test traced statement by statement: explore or dump
    at,            \* the line of the statement the traced test executes next
    calls,         \* its call stack: per call the line to return to and the depth argument
    settled        \* a settle wait has run since the last launch, tap or swipe

crawlVars == <<root, maxDepth, cur, ctr, pc, seenHashes, screenCount, recorded, stack,
               phase2Hash, sinceLaunch>>

pipeVars == <<pipeline, ppc, analysis, states, stateIdx, keyIdx, prefs, outDir, wrote, executed,
              failures, all_results, trees, plan, toCapture, verdicts, capIdx, results>>

hashVars == <<snapA, snapB, hashA, hashB>>

parVars == <<runPc, runnerDir, taken>>

dumpVars == <<dumpApp, dumpPc, tabIdx, shown, gestures, inspected>>

readVars == <<elems, rpc, ri, rn, lines, cands, tapped, xcFailures>>

stepVars == <<test, at, calls, settled>>

nonCrawlVars == <<pipeVars, hashVars, sim, parVars, dumpVars, readVars, stepVars>>
nonPipeVars == <<crawlVars, hashVars, sim, parVars, dumpVars, readVars, stepVars>>

vars == <<crawlVars, pipeVars, hashVars, sim, parVars, dumpVars, readVars, stepVars>>

App(s, k) == [s |-> s, k |-> k]
HashOf(a) == Fingerprint[a.s][a.k]
CurHash == HashOf(App(cur, ctr))
NoHash == <<>>

(***************************************************************************)
(* The app's answers to UI actions.  A tap or swipe on a page may show any  *)
(* page (or change nothing); the feed stays, and counts taps and pages.     *)
(***************************************************************************)
TapResults(a) ==
    IF a.s = Feed THEN {App(Feed, IF a.k < CtrMax THEN a.k + 1 ELSE a.k)}
    ELSE {App(t, a.k) : t \in Pages}

\* swipeLeft, swipeRight: the feed pages on and counts
SwipeResults(a) ==
    IF a.s \in StaticScreens THEN {a}
    ELSE IF a.s = Feed THEN {App(Feed, IF a.k < CtrMax THEN a.k + 1 ELSE a.k)}
    ELSE {App(t, a.k) : t \in Pages}

\* swipeDown: the feed has nothing to dismiss
SwipeDownResults(a) ==
    IF a.s = Feed \/ a.s \in StaticScreens THEN {a} ELSE {App(t, a.k) : t \in Pages}

\* app.terminate(); app.launch()
Launched(a) == App(root, a.k)

\* xcrun simctl terminate, app.terminate(): no instance is running afterwards
Terminate(i) == "none"

\* xcrun simctl launch: starts an instance unless one is running, which then stays
SimctlLaunch(i) == IF i = "none" THEN "fresh" ELSE "leftover"

\* XCUIApplication.launch(): ends a running instance, then starts one
XCLaunch(i) == SimctlLaunch(Terminate(i))

\* launch_app without its terminate
launch_appNoTerminate(i) == SimctlLaunch(i)

\* AppShotsCapture.launch_app: terminate (check=False), then launch
launch_app(i) == SimctlLaunch(Terminate(i))

Buttons(a) == Snapshot(a.s, a.k).buttons
Cells(a) == Snapshot(a.s, a.k).cells

Min(x, y) == IF x < y THEN x ELSE y

\* one more UI action since the launch
Acted(n) == Min(n + 1, MaxDepthArg)

\* app.buttons.element(boundBy: idx), idx counted from 0: exists && isHittable
ButtonHittable(a, idx) == idx < Len(Buttons(a)) /\ Buttons(a)[idx + 1].hittable
CellHittable(a, idx) == idx < Len(Cells(a)) /\ Cells(a)[idx + 1].hittable

\* where a button of a static screen leads
Target(s, label) ==
    IF s \in StaticHomes THEN (IF label = L_Settings THEN s + 1 ELSE s + 2)
    ELSE IF s = B_Onboarding THEN s
    ELSE IF s = C_Home THEN (IF label = L_Go THEN C_Page ELSE s)
    ELSE IF s = C_Page
    THEN (IF label = L_Back THEN C_Home ELSE IF label = L_More THEN C_Sheet ELSE s)
    ELSE IF s \in B_Tabs \cup {B_Detail}
    THEN (IF label = L_Home THEN B_Tab1
          ELSE IF label = L_Settings THEN B_Tab2
          ELSE B_Tab3)
    ELSE HomeOf(s)

\* btn.tap() on app.buttons.element(boundBy: idx)
TapButton(a, idx) ==
    IF a.s \in StaticScreens THEN {App(Target(a.s, Buttons(a)[idx + 1].label), a.k)}
    ELSE TapResults(a)

\* cell.tap() on app.cells.element(boundBy: idx)
TapCell(a, idx) == IF a.s = B_Tab3 THEN {App(B_Detail, a.k)} ELSE TapResults(a)

\* the positions of the buttons inside a navigation bar, and of those with a label
InNavBar(a) == {i \in 1 .. Len(Buttons(a)) : Buttons(a)[i].navbar}
Labelled(a, l) == {i \in 1 .. Len(Buttons(a)) : Buttons(a)[i].label = l}

\* the index of the first hittable button among the positions S
FirstButton(a, S) ==
    CHOOSE i \in 0 .. Len(Buttons(a)) - 1 :
        /\ i + 1 \in S /\ Buttons(a)[i + 1].hittable
        /\ \A j \in 0 .. i - 1 : ~(j + 1 \in S /\ Buttons(a)[j + 1].hittable)

(***************************************************************************)
(* tryGoBack: the states the app may be in after it.                        *)
(***************************************************************************)
HasNavBack(a) == \E i \in 1 .. Len(Buttons(a)) : Buttons(a)[i].navbar /\ Buttons(a)[i].hittable
HasLabel(a, l) == \E i \in 1 .. Len(Buttons(a)) : Buttons(a)[i].label = l /\ Buttons(a)[i].hittable

\* tryGoBack without the navigation-bar strategy
tryGoBackNoNavBar(a) ==
    IF HasLabel(a, L_Close) THEN TapButton(a, FirstButton(a, Labelled(a, L_Close)))
    ELSE IF HasLabel(a, L_xmark) THEN TapButton(a, FirstButton(a, Labelled(a, L_xmark)))
    ELSE SwipeDownResults(a)

tryGoBack(a) ==
    IF HasNavBack(a) THEN TapButton(a, FirstButton(a, InNavBar(a)))
    ELSE IF HasLabel(a, L_Close) THEN TapButton(a, FirstButton(a, Labelled(a, L_Close)))
    ELSE IF HasLabel(a, L_xmark) THEN TapButton(a, FirstButton(a, Labelled(a, L_xmark)))
    ELSE SwipeDownResults(a)

(***************************************************************************)
(* recordScreenIfNew, as the new values of (seenHashes, screenCount,        *)
(* recorded).                                                               *)
(***************************************************************************)
Context(kind, label) == [kind |-> kind, label |-> label]

\* recordScreenIfNew returning false at once
recordScreenNever(seen, count, rec, a, context, depth) ==
    [seen |-> seen, count |-> count, rec |-> rec, new |-> FALSE]

\* recordScreenIfNew without the seenHashes test
recordScreenAlways(seen, count, rec, a, context, depth) ==
    IF count >= maxScreens THEN [seen |-> seen, count |-> count, rec |-> rec, new |-> FALSE]
    ELSE [seen |-> seen \cup {HashOf(a)},
          count |-> count + 1,
          rec |-> Append(rec, [number |-> count + 1, context |-> context,
                               hash |-> HashOf(a), depth |-> depth]),
          new |-> TRUE]

\* recordScreenIfNew without the maxScreens test
recordScreenNoCap(seen, count, rec, a, context, depth) ==
    IF HashOf(a) \in seen THEN [seen |-> seen, count |-> count, rec |-> rec, new |-> FALSE]
    ELSE [seen |-> seen \cup {HashOf(a)},
          count |-> count + 1,
          rec |-> Append(rec, [number |-> count + 1, context |-> context,
                               hash |-> HashOf(a), depth |-> depth]),
          new |-> TRUE]

recordScreenIfNew(seen, count, rec, a, context, depth) ==
    IF HashOf(a) \in seen THEN [seen |-> seen, count |-> count, rec |-> rec, new |-> FALSE]
    ELSE IF count >= maxScreens THEN [seen |-> seen, count |-> count, rec |-> rec, new |-> FALSE]
    ELSE [seen |-> seen \cup {HashOf(a)},
          count |-> count + 1,
          rec |-> Append(rec, [number |-> count + 1, context |-> context,
                               hash |-> HashOf(a), depth |-> depth]),
          new |-> TRUE]

\* label.replacingOccurrences(of: " ", with: "-").replacingOccurrences(of: "/", with: "-").prefix(30)
SafeName(label) ==
    Prefix([i \in 1 .. Len(label) |-> IF label[i] \in {32, 47} THEN 45 ELSE label[i]], 30)

\* label.prefix(30).replacingOccurrences(of: " ", with: "-")
SafeCellName(label) ==
    LET p == Prefix(label, 30) IN [i \in 1 .. Len(p) |-> IF p[i] = 32 THEN 45 ELSE p[i]]

(***************************************************************************)
(* exploreCurrentScreen.                                                    *)
(***************************************************************************)
SkipLabels == {L_Back, L_Cancel, L_Done, L_Close}

\* the (index, label) pairs collected on entry, indices counted from 0
RECURSIVE Collect(_, _)
Collect(a, i) ==
    IF i >= Min(Len(Buttons(a)), max_actions) THEN <<>>
    ELSE LET b == Buttons(a)[i + 1]
         IN  (IF b.hittable /\ b.label # <<>> /\ b.label \notin SkipLabels
              THEN <<[idx |-> i, label |-> b.label]>> ELSE <<>>) \o Collect(a, i + 1)

Frame(a, depth) ==
    [depth |-> depth, hashBefore |-> HashOf(a), buttonLabels |-> Collect(a, 0),
     bi |-> 1, state |-> "buttons", nCells |-> 0, ci |-> 0]

\* the depth guard off by one
DepthGuardInclusive(depth) == depth <= maxDepth

\* the depth guard one level early
DepthGuardEarly(depth) == depth + 1 < maxDepth

DepthGuard(depth) == depth < maxDepth

\* the call exploreCurrentScreen(app, depth, maxDepth): the two guards, then the frame
Enter(stk, a, depth, count) ==
    IF DepthGuard(depth) /\ count < maxScreens THEN Append(stk, Frame(a, depth)) ELSE stk

Top == stack[Len(stack)]
Pop == SubSeq(stack, 1, Len(stack) - 1)
SetTop(f) == [stack EXCEPT ![Len(stack)] = f]

\* a screen with nothing on it
NoSnapshot == [texts |-> <<>>, buttons |-> <<>>, cells |-> <<>>]

\* screenHash is not being applied
HashIdle ==
    /\ snapA = NoSnapshot
    /\ snapB = NoSnapshot
    /\ hashA = NoHash
    /\ hashB = NoHash

Runs == {1, 2}

\* no runner directory
NoDir == [project |-> 0, test |-> 0, build |-> 0, shots |-> {}]

\* no concurrent runs
ParIdle ==
    /\ runPc = [r \in Runs |-> "idle"]
    /\ runnerDir = NoDir
    /\ taken = [r \in Runs |-> {}]

Roles == {"buttons", "texts", "tabs", "cells", "switches", "navbars", "navbtns", "images",
          "pickers"}
NoneInspected == [r \in Roles |-> 0]

\* test_dump_tree is not running
DumpIdle ==
    /\ dumpApp = [elements |-> 0, tabs |-> 0, page |-> 0]
    /\ dumpPc = "idle"
    /\ tabIdx = 0
    /\ shown = 0
    /\ gestures = 0
    /\ inspected = NoneInspected

\* no test is traced statement by statement
StepIdle ==
    /\ test = "none"
    /\ at = 0
    /\ calls = <<>>
    /\ settled = FALSE

\* no screen in motion is being read
ReadIdle ==
    /\ elems = <<>>
    /\ rpc = "idle"
    /\ ri = 0
    /\ rn = 0
    /\ lines = <<>>
    /\ cands = <<>>
    /\ tapped = <<>>
    /\ xcFailures = 0

\* no pipeline is running
PipeIdle ==
    /\ pipeline = "none"
    /\ ppc = "idle"
    /\ analysis = <<>>
    /\ states = <<>>
    /\ stateIdx = 0
    /\ keyIdx = 0
    /\ prefs = {}
    /\ outDir = {}
    /\ wrote = {}
    /\ executed = {}
    /\ failures = {}
    /\ all_results = <<>>
    /\ trees = <<>>
    /\ plan = <<>>
    /\ toCapture = <<>>
    /\ verdicts = <<>>
    /\ capIdx = 0
    /\ results = <<>>

Init ==
    /\ PipeIdle
    /\ HashIdle
    /\ ParIdle
    /\ DumpIdle
    /\ ReadIdle
    /\ StepIdle
    /\ sim \in {"none", "leftover"}
    /\ root \in {Home, Feed, C_Home} \cup StaticHomes
    /\ maxDepth \in 0 .. MaxDepthArg
    /\ cur = root
    /\ ctr = 0
    /\ pc = "start"
    /\ seenHashes = {}
    /\ screenCount = 0
    /\ recorded = <<>>
    /\ stack = <<>>
    /\ phase2Hash = NoHash
    /\ sinceLaunch = 0

\* test_explore: launch, record the initial screen, phase 1
Launch ==
    /\ UNCHANGED <<pipeVars, hashVars, parVars, dumpVars, readVars, stepVars>>
    /\ sim' = XCLaunch(sim)
    /\ pc = "start"
    /\ LET a == Launched(App(cur, ctr))
           r == recordScreenIfNew(seenHashes, screenCount, recorded, a,
                                  Context("initial", <<>>), 0)
       IN  /\ cur' = a.s
           /\ ctr' = a.k
           /\ seenHashes' = r.seen
           /\ screenCount' = r.count
           /\ recorded' = r.rec
           /\ stack' = Enter(stack, a, 0, r.count)
    /\ pc' = "phase1"
    /\ sinceLaunch' = 0
    /\ UNCHANGED <<root, maxDepth, phase2Hash>>

\* one iteration of the button loop, up to the recursive call
ButtonStep ==
    /\ UNCHANGED nonCrawlVars
    /\ stack # <<>>
    /\ Top.state = "buttons"
    /\ Top.bi <= Len(Top.buttonLabels)
    /\ LET f == Top
           a == App(cur, ctr)
           c == f.buttonLabels[f.bi]
       IN
       IF screenCount >= maxScreens
       THEN \* guard screenCount < maxScreens else { return }
            /\ stack' = Pop
            /\ UNCHANGED <<cur, ctr, seenHashes, screenCount, recorded, sinceLaunch>>
       ELSE IF ~ButtonHittable(a, c.idx)
       THEN \* guard btn.exists && btn.isHittable else { continue }
            /\ stack' = SetTop([f EXCEPT !.bi = f.bi + 1])
            /\ UNCHANGED <<cur, ctr, seenHashes, screenCount, recorded, sinceLaunch>>
       ELSE \E b \in TapButton(a, c.idx) :
            LET r == recordScreenIfNew(seenHashes, screenCount, recorded, b,
                                       Context("tap", SafeName(c.label)), f.depth + 1)
            IN  /\ cur' = b.s
                /\ ctr' = b.k
                /\ sinceLaunch' = Acted(sinceLaunch)
                /\ IF HashOf(b) # f.hashBefore
                   THEN /\ seenHashes' = r.seen
                        /\ screenCount' = r.count
                        /\ recorded' = r.rec
                        /\ stack' = Enter(SetTop([f EXCEPT !.state = "recover"]),
                                          b, f.depth + 1, r.count)
                   ELSE /\ stack' = SetTop([f EXCEPT !.bi = f.bi + 1])
                        /\ UNCHANGED <<seenHashes, screenCount, recorded>>
    /\ UNCHANGED <<root, maxDepth, pc, phase2Hash>>

\* the state of the app after tryGoBack and, if the hash is not hashBefore, the relaunch
Recovered(b, hashBefore) == IF HashOf(b) # hashBefore THEN Launched(b) ELSE b

\* after the recursive call: tryGoBack, and the relaunch if the hash is not hashBefore
Recover ==
    /\ UNCHANGED <<pipeVars, hashVars, parVars, dumpVars, readVars, stepVars>>
    /\ stack # <<>>
    /\ Top.state = "recover"
    /\ \E b \in tryGoBack(App(cur, ctr)) :
         LET e == Recovered(b, Top.hashBefore)
         IN  /\ cur' = e.s
             /\ ctr' = e.k
             /\ sinceLaunch' = IF HashOf(b) # Top.hashBefore THEN 0 ELSE Acted(sinceLaunch)
             /\ sim' = IF HashOf(b) # Top.hashBefore THEN XCLaunch(Terminate(sim)) ELSE sim
    /\ stack' = SetTop([Top EXCEPT !.state = "buttons", !.bi = Top.bi + 1])
    /\ UNCHANGED <<root, maxDepth, pc, seenHashes, screenCount, recorded, phase2Hash>>

\* the button loop is over: the range of the cell loop is fixed here
StartCells ==
    /\ UNCHANGED nonCrawlVars
    /\ stack # <<>>
    /\ Top.state = "buttons"
    /\ Top.bi > Len(Top.buttonLabels)
    /\ stack' = SetTop([Top EXCEPT !.state = "cells", !.ci = 0,
                                   !.nCells = Min(Len(Cells(App(cur, ctr))), CellCap)])
    /\ UNCHANGED <<root, maxDepth, cur, ctr, pc, seenHashes, screenCount, recorded,
                   phase2Hash, sinceLaunch>>

\* one iteration of the cell loop, up to tryGoBack
CellStep ==
    /\ UNCHANGED nonCrawlVars
    /\ stack # <<>>
    /\ Top.state = "cells"
    /\ Top.ci < Top.nCells
    /\ LET f == Top
           a == App(cur, ctr)
       IN
       IF screenCount >= maxScreens
       THEN /\ stack' = Pop
            /\ UNCHANGED <<cur, ctr, seenHashes, screenCount, recorded, sinceLaunch>>
       ELSE IF ~CellHittable(a, f.ci)
       THEN /\ stack' = SetTop([f EXCEPT !.ci = f.ci + 1])
            /\ UNCHANGED <<cur, ctr, seenHashes, screenCount, recorded, sinceLaunch>>
       ELSE \E b \in TapCell(a, f.ci) :
            LET r == recordScreenIfNew(seenHashes, screenCount, recorded, b,
                                       Context("cell", SafeCellName(Cells(a)[f.ci + 1].label)),
                                       f.depth + 1)
            IN  /\ cur' = b.s
                /\ ctr' = b.k
                /\ sinceLaunch' = Acted(sinceLaunch)
                /\ IF HashOf(b) # f.hashBefore
                   THEN /\ seenHashes' = r.seen
                        /\ screenCount' = r.count
                        /\ recorded' = r.rec
                        /\ stack' = SetTop([f EXCEPT !.state = "recoverCell"])
                   ELSE /\ stack' = SetTop([f EXCEPT !.ci = f.ci + 1])
                        /\ UNCHANGED <<seenHashes, screenCount, recorded>>
    /\ UNCHANGED <<root, maxDepth, pc, phase2Hash>>

\* the rest of the iteration: tryGoBack, and the relaunch if the hash is not hashBefore
CellRecover ==
    /\ UNCHANGED <<pipeVars, hashVars, parVars, dumpVars, readVars, stepVars>>
    /\ stack # <<>>
    /\ Top.state = "recoverCell"
    /\ \E b \in tryGoBack(App(cur, ctr)) :
         LET e == Recovered(b, Top.hashBefore)
         IN  /\ cur' = e.s
             /\ ctr' = e.k
             /\ sinceLaunch' = IF HashOf(b) # Top.hashBefore THEN 0 ELSE Acted(sinceLaunch)
             /\ sim' = IF HashOf(b) # Top.hashBefore THEN XCLaunch(Terminate(sim)) ELSE sim
    /\ stack' = SetTop([Top EXCEPT !.state = "cells", !.ci = Top.ci + 1])
    /\ UNCHANGED <<root, maxDepth, pc, seenHashes, screenCount, recorded, phase2Hash>>

\* the cell loop is over: exploreCurrentScreen returns
Return ==
    /\ UNCHANGED nonCrawlVars
    /\ stack # <<>>
    /\ Top.state = "cells"
    /\ Top.ci >= Top.nCells
    /\ stack' = Pop
    /\ UNCHANGED <<root, maxDepth, cur, ctr, pc, seenHashes, screenCount, recorded,
                   phase2Hash, sinceLaunch>>

\* test_explore phase 2: the swipe-left probe
SwipeLeft ==
    /\ UNCHANGED nonCrawlVars
    /\ pc = "phase1"
    /\ stack = <<>>
    /\ \E b \in SwipeResults(App(cur, ctr)) :
         LET r == recordScreenIfNew(seenHashes, screenCount, recorded, b,
                                    Context("swipe-left", <<>>), 1)
         IN  /\ phase2Hash' = CurHash
             /\ cur' = b.s
             /\ ctr' = b.k
             /\ IF HashOf(b) # CurHash
                THEN /\ seenHashes' = r.seen
                     /\ screenCount' = r.count
                     /\ recorded' = r.rec
                     /\ stack' = Enter(stack, b, 1, r.count)
                ELSE UNCHANGED <<seenHashes, screenCount, recorded, stack>>
    /\ pc' = "swipedLeft"
    /\ sinceLaunch' = Acted(sinceLaunch)
    /\ UNCHANGED <<root, maxDepth>>

\* test_explore phase 2: relaunch, then the swipe-right probe
SwipeRight ==
    /\ UNCHANGED <<pipeVars, hashVars, parVars, dumpVars, readVars, stepVars>>
    /\ sim' = XCLaunch(Terminate(sim))
    /\ pc = "swipedLeft"
    /\ stack = <<>>
    /\ \E b \in SwipeResults(Launched(App(cur, ctr))) :
         LET r == recordScreenIfNew(seenHashes, screenCount, recorded, b,
                                    Context("swipe-right", <<>>), 1)
         IN  /\ cur' = b.s
             /\ ctr' = b.k
             /\ IF HashOf(b) # phase2Hash
                THEN /\ seenHashes' = r.seen
                     /\ screenCount' = r.count
                     /\ recorded' = r.rec
                     /\ stack' = Enter(stack, b, 1, r.count)
                ELSE UNCHANGED <<seenHashes, screenCount, recorded, stack>>
    /\ pc' = "swipedRight"
    /\ sinceLaunch' = Acted(0)
    /\ UNCHANGED <<root, maxDepth, phase2Hash>>

\* test_explore: the summary is written and the test ends
Summary ==
    /\ UNCHANGED nonCrawlVars
    /\ pc = "swipedRight"
    /\ stack = <<>>
    /\ pc' = "Done"
    /\ UNCHANGED <<root, maxDepth, cur, ctr, seenHashes, screenCount, recorded, stack,
                   phase2Hash, sinceLaunch>>

Next ==
    \/ Launch
    \/ ButtonStep
    \/ Recover
    \/ StartCells
    \/ CellStep
    \/ CellRecover
    \/ Return
    \/ SwipeLeft
    \/ SwipeRight
    \/ Summary

Spec == Init /\ [][Next]_vars

\* the crawl under the scheduling of a running test: it always takes its next step
FairSpec == Spec /\ WF_vars(Next)

(***************************************************************************)
(* What the test writes: per recorded Screen a screenshot and an element    *)
(* list named NN-context, and at the end the summary.                       *)
(***************************************************************************)
Outputs ==
    {[kind |-> "screenshot", number |-> recorded[i].number, context |-> recorded[i].context] :
        i \in 1 .. Len(recorded)}
    \cup {[kind |-> "elements", number |-> recorded[i].number, context |-> recorded[i].context] :
        i \in 1 .. Len(recorded)}
    \cup (IF pc = "Done" THEN {[kind |-> "summary", number |-> screenCount, context |-> <<>>]}
          ELSE {})

(***************************************************************************)
(* The multi-state driver (UIExplorer.explore, HybridCapture.dump_trees)    *)
(* and the hybrid pipeline (HybridCapture.run).  The simulator, xcodebuild  *)
(* and the language model are the environment: a command returns any exit   *)
(* status, a test run leaves any files, the model answers any YAML of the   *)
(* shapes below.  A defaults dict is the sequence of its items.             *)
(***************************************************************************)
\* the UTF-8 bytes of the strings that go into a state name
Utf8(str) ==
    CASE str = "premium" -> <<112, 114, 101, 109, 105, 117, 109>>
      [] str = "onboardingDone" ->
           <<111, 110, 98, 111, 97, 114, 100, 105, 110, 103, 68, 111, 110, 101>>
      [] str = "True" -> <<84, 114, 117, 101>>
      [] str = "state" -> <<115, 116, 97, 116, 101>>

\* a defaults value with its Python type; text is str(value)
BoolTrue == [type |-> "bool", text |-> "True"]
StrValue(t) == [type |-> "str", text |-> t]

Item(k) == [key |-> k, value |-> BoolTrue]
D_Empty == <<>>
D_Premium == <<Item("premium")>>
D_PremiumStr == <<[key |-> "premium", value |-> StrValue("True")]>>
D_Onboarded == <<Item("onboardingDone")>>
D_Both == <<Item("onboardingDone"), Item("premium")>>
Dicts == {D_Empty, D_Premium, D_PremiumStr, D_Onboarded, D_Both}
Items(d) == {d[i] : i \in 1 .. Len(d)}

\* defaults write: the key gets the value, whatever it held
WritePref(p, item) == {x \in p : x.key # item.key} \cup {item}

RECURSIVE WriteAll(_, _)
WriteAll(p, d) == IF d = <<>> THEN p ELSE WriteAll(WritePref(p, Head(d)), Tail(d))

\* the labels an element list or a navigation step may hold
ButtonLabels == {"Upgrade", "Settings"}

\* the files a test run may leave
Png == [name |-> "01-initial.png", labels |-> {}]
ElementFiles == {[name |-> "elements.txt", labels |-> l] : l \in SUBSET ButtonLabels}

\* subprocess exit statuses
ExitCodes == {0, 1}

\* the screens source analysis may name: a landing screen and a premium screen
E_Home == [name |-> "home", defaults |-> D_Empty, tap |-> "Settings"]
E_Paywall == [name |-> "paywall", defaults |-> D_Premium, tap |-> "Upgrade"]
Analyses == {<<>>, <<E_Home>>, <<E_Paywall>>, <<E_Home, E_Paywall>>}

\* the inputs of explore: at most NumPasses defaults dicts
DefaultsStates == UNION {[1 .. n -> Dicts] : n \in 1 .. NumPasses}

\* the non-empty defaults of the screens after the empty state, repeated or not
RECURSIVE ExtractStatesAll(_, _)
ExtractStatesAll(screens, acc) ==
    IF screens = <<>> THEN acc
    ELSE LET d == Head(screens).defaults
         IN  ExtractStatesAll(Tail(screens), IF d # <<>> THEN Append(acc, d) ELSE acc)

\* analyze_source: the unique non-empty defaults of the screens, after the empty state
RECURSIVE ExtractStates(_, _)
ExtractStates(screens, acc) ==
    IF screens = <<>> THEN acc
    ELSE LET d == Head(screens).defaults
         IN  ExtractStates(Tail(screens),
                           IF d # <<>> /\ ~\E i \in 1 .. Len(acc) : Items(acc[i]) = Items(d)
                           THEN Append(acc, d) ELSE acc)

RECURSIVE JoinedBy(_, _)
JoinedBy(parts, sep) ==
    IF parts = <<>> THEN <<>>
    ELSE IF Len(parts) = 1 THEN parts[1]
    ELSE parts[1] \o sep \o JoinedBy(Tail(parts), sep)

\* f"{k}={v}"
KeyValue(item) == Utf8(item.key) \o <<61>> \o Utf8(item.value.text)

\* state_key of dump_trees for pass idx (counted from 0), as bytes: "state<idx>", or
\* "_".join(f"{k}={v}" for k, v in list(defaults.items())[:3])[:50]
StateKey(idx, defaults) ==
    IF defaults = <<>> THEN Utf8("state") \o Digits(idx)
    ELSE LET first == Prefix(defaults, KeyItems)
         IN  Prefix(JoinedBy([i \in 1 .. Len(first) |-> KeyValue(first[i])], <<95>>), KeyChars)

\* state_name of explore: the same, with the spaces removed
NotSpace(c) == c # 32
StateName(idx, defaults) ==
    IF defaults = <<>> THEN StateKey(idx, defaults)
    ELSE SelectSeq(StateKey(idx, defaults), NotSpace)

\* trees[key] = tree
PutTree(t, key, tree) ==
    IF \E i \in 1 .. Len(t) : t[i].key = key
    THEN [i \in 1 .. Len(t) |-> IF t[i].key = key THEN [key |-> key, tree |-> tree] ELSE t[i]]
    ELSE Append(t, [key |-> key, tree |-> tree])

\* the text of elements.txt, or "(no elements captured)"
TreeOf(files) ==
    IF \E f \in files : f.name = "elements.txt"
    THEN [captured |-> TRUE, labels |-> (CHOOSE f \in files : f.name = "elements.txt").labels]
    ELSE [captured |-> FALSE, labels |-> {}]

\* what the language model may answer for one screen of the analysis
NoReason == [present |-> FALSE, text |-> ""]
GivenReason(t) == [present |-> TRUE, text |-> t]

PlanEntries(e) ==
    {[name |-> e.name, defaults |-> e.defaults, navigation |-> <<l>>, reachable |-> r,
      reason |-> NoReason] : l \in ButtonLabels, r \in {"true", "absent"}}
    \cup {[name |-> e.name, defaults |-> e.defaults, navigation |-> <<>>, reachable |-> "false",
           reason |-> rs] : rs \in {NoReason, GivenReason("no such button")}}

\* the answers for a list of screens: each screen answered once or left out
RECURSIVE Plans(_)
Plans(screens) ==
    IF screens = <<>> THEN {<<>>}
    ELSE LET rest == Plans(Tail(screens))
         IN  rest \cup {<<p>> \o r : p \in PlanEntries(Head(screens)), r \in rest}

\* every planned screen taken as reachable
IsReachableAny(s) == TRUE

\* s.get("reachable", True)
IsReachable(s) == s.reachable # "false"
IsUnreachable(s) == ~IsReachable(s)

\* s.get('reason', 'unknown')
LoggedReason(s) == IF s.reason.present THEN s.reason.text ELSE "unknown"

\* the log lines of capture for the unreachable screens
Logged(unreachable) ==
    [i \in 1 .. Len(unreachable) |->
        [name |-> unreachable[i].name, reason |-> LoggedReason(unreachable[i])]]

PipeInit ==
    /\ HashIdle
    /\ ParIdle
    /\ DumpIdle
    /\ ReadIdle
    /\ StepIdle
    /\ sim \in {"none", "leftover"}
    /\ root = Home
    /\ maxDepth = 0
    /\ cur = Home
    /\ ctr = 0
    /\ pc = "start"
    /\ seenHashes = {}
    /\ screenCount = 0
    /\ recorded = <<>>
    /\ stack = <<>>
    /\ phase2Hash = NoHash
    /\ sinceLaunch = 0
    /\ pipeline \in {"explore", "hybrid"}
    /\ ppc = IF pipeline = "explore" THEN "clear" ELSE "analyze"
    /\ analysis = <<>>
    /\ states \in IF pipeline = "explore" THEN DefaultsStates ELSE {<<>>}
    /\ stateIdx = IF pipeline = "explore" THEN 1 ELSE 0
    /\ keyIdx = 0
    /\ prefs \in {{}, Items(D_Premium)}
    /\ outDir = {}
    /\ wrote = {}
    /\ executed = {}
    /\ failures = {}
    /\ all_results = <<>>
    /\ trees = <<>>
    /\ plan = <<>>
    /\ toCapture = <<>>
    /\ verdicts = <<>>
    /\ capIdx = 0
    /\ results = <<>>

\* HybridCapture.analyze_source
AnalyzeSource ==
    /\ ppc = "analyze"
    /\ \E screens \in Analyses :
         /\ analysis' = screens
         /\ states' = ExtractStates(screens, <<D_Empty>>)
    /\ stateIdx' = 1
    /\ ppc' = "clear"
    /\ UNCHANGED <<pipeline, keyIdx, prefs, outDir, wrote, executed, failures, all_results, trees,
                   plan, toCapture, verdicts, capIdx, results>>
    /\ UNCHANGED nonPipeVars

\* the pass begins: clear_defaults (check=False)
ClearDefaults ==
    /\ ppc = "clear"
    /\ \E rc \in ExitCodes :
         /\ prefs' = IF rc = 0 THEN {} ELSE prefs
         /\ failures' = IF rc = 0 THEN failures ELSE failures \cup {stateIdx}
    /\ keyIdx' = 1
    /\ wrote' = {}
    /\ ppc' = "set"
    /\ UNCHANGED <<pipeline, analysis, states, stateIdx, outDir, executed, all_results, trees,
                   plan, toCapture, verdicts, capIdx, results>>
    /\ UNCHANGED nonPipeVars

\* set_defaults: one defaults write (run_cmd with check=True raises on a non-zero status)
SetDefault ==
    /\ ppc = "set"
    /\ keyIdx <= Len(states[stateIdx])
    /\ \E rc \in ExitCodes :
         IF rc = 0
         THEN /\ prefs' = WritePref(prefs, states[stateIdx][keyIdx])
              /\ keyIdx' = keyIdx + 1
              /\ UNCHANGED <<ppc, failures>>
         ELSE /\ ppc' = "raised"
              /\ failures' = failures \cup {stateIdx}
              /\ UNCHANGED <<prefs, keyIdx>>
    /\ UNCHANGED <<pipeline, analysis, states, stateIdx, outDir, wrote, executed, all_results, trees,
                   plan, toCapture, verdicts, capIdx, results>>
    /\ UNCHANGED nonPipeVars

\* set_defaults returning at once, whatever is left to write
DefaultsWrittenEarly == TRUE

\* set_defaults: the loop over defaults.items() is over
DefaultsWritten == keyIdx > Len(states[stateIdx])

\* the loop over the files of the directory without the unlink
UnlinkedNothing(dir) == dir

\* for f in glob(...): f.unlink()
Unlinked(dir) == {}

\* the directory after a test run wrote files: a file of the same name is replaced
Written(dir, files) == {f \in dir : \A g \in files : g.name # f.name} \cup files

\* terminate_app (check=False), then the files of the previous pass are removed
TerminateApp ==
    /\ ppc = "set"
    /\ DefaultsWritten
    /\ \E rc \in ExitCodes :
         failures' = IF rc = 0 THEN failures ELSE failures \cup {stateIdx}
    /\ outDir' = Unlinked(outDir)
    /\ ppc' = "run"
    /\ UNCHANGED <<pipeline, analysis, states, stateIdx, keyIdx, prefs, wrote, executed, all_results,
                   trees, plan, toCapture, verdicts, capIdx, results>>
    /\ sim' = Terminate(sim)
    /\ UNCHANGED <<crawlVars, hashVars, parVars, dumpVars, readVars, stepVars>>

\* run_exploration / the tree dump test: xcodebuild test-without-building (check=False)
RunTest ==
    /\ ppc = "run"
    /\ \E rc \in ExitCodes :
         failures' = IF rc = 0 THEN failures ELSE failures \cup {stateIdx}
    /\ \E files \in IF pipeline = "explore" THEN {{}, {Png}}
                    ELSE {{}} \cup {{f} : f \in ElementFiles} :
         /\ outDir' = Written(outDir, files)
         /\ wrote' = files
    /\ executed' = executed \cup {stateIdx}
    /\ ppc' = "collect"
    /\ UNCHANGED <<pipeline, analysis, states, stateIdx, keyIdx, prefs, all_results, trees,
                   plan, toCapture, verdicts, capIdx, results>>
    /\ sim' = XCLaunch(sim)
    /\ UNCHANGED <<crawlVars, hashVars, parVars, dumpVars, readVars, stepVars>>

\* the pass ends: the screenshots are copied (explore), the element list is read
\* (dump_trees); then the next pass, or the loop is over
CollectPass ==
    /\ ppc = "collect"
    /\ LET key == StateKey(stateIdx - 1, states[stateIdx])
           name == StateName(stateIdx - 1, states[stateIdx])
       IN  IF pipeline = "explore"
           THEN /\ all_results' = IF Png \in outDir
                                  THEN Append(all_results, [state |-> name, png |-> Png.name])
                                  ELSE all_results
                /\ UNCHANGED trees
           ELSE /\ trees' = PutTree(trees, key, TreeOf(outDir))
                /\ UNCHANGED all_results
    /\ stateIdx' = stateIdx + 1
    /\ ppc' = IF stateIdx < Len(states) THEN "clear"
              ELSE IF pipeline = "explore" THEN "returned" ELSE "plan"
    /\ UNCHANGED <<pipeline, analysis, states, keyIdx, prefs, outDir, wrote, executed, failures,
                   plan, toCapture, verdicts, capIdx, results>>
    /\ UNCHANGED nonPipeVars

\* HybridCapture.plan_navigation: the answer of the language model, as it is
PlanNavigation ==
    /\ ppc = "plan"
    /\ \E p \in Plans(analysis) : plan' = p
    /\ ppc' = "capture"
    /\ UNCHANGED <<pipeline, analysis, states, stateIdx, keyIdx, prefs, outDir, wrote, executed,
                   failures, all_results, trees, toCapture, verdicts, capIdx, results>>
    /\ UNCHANGED nonPipeVars

\* HybridCapture.capture, up to the call of capture_all
Capture ==
    /\ ppc = "capture"
    /\ toCapture' = SelectSeq(plan, IsReachable)
    /\ verdicts' = Logged(SelectSeq(plan, IsUnreachable))
    /\ capIdx' = 1
    /\ ppc' = "capture_all"
    /\ UNCHANGED <<pipeline, analysis, states, stateIdx, keyIdx, prefs, outDir, wrote, executed,
                   failures, all_results, trees, plan, results>>
    /\ UNCHANGED nonPipeVars

\* Captures/<name>.png as written by the test of a screen
ShotFile(n) == [name |-> n, labels |-> {}]

\* the screenshots in the Captures directory: create_runner_project makes it anew and
\* nothing removes a file from it; a test that wrote its file had it found and reported
Captures == {results[r] : r \in 1 .. Len(results)}

\* XCTestCapture.capture_all, one screen: clear the defaults (check=False), write
\* nset of the screen's defaults (a failed write raises), run its test (check=False),
\* report the screen if Captures/<name>.png exists
CaptureScreen ==
    /\ ppc = "capture_all"
    /\ capIdx <= Len(toCapture)
    /\ LET d == toCapture[capIdx].defaults
       IN  \E rc \in ExitCodes, nset \in 0 .. Len(d), shot \in BOOLEAN :
             /\ prefs' = WriteAll(IF rc = 0 THEN {} ELSE prefs, Prefix(d, nset))
             /\ IF nset < Len(d)
                THEN /\ ppc' = "raised"
                     /\ UNCHANGED <<capIdx, results, sim, wrote>>
                ELSE /\ wrote' = IF shot THEN {ShotFile(toCapture[capIdx].name)} ELSE {}
                     /\ results' = IF shot \/ toCapture[capIdx].name \in Captures
                                   THEN Append(results, toCapture[capIdx].name)
                                   ELSE results
                     /\ capIdx' = capIdx + 1
                     /\ sim' = XCLaunch(Terminate(sim))
                     /\ UNCHANGED ppc
    /\ UNCHANGED <<pipeline, analysis, states, stateIdx, keyIdx, outDir, executed, failures,
                   all_results, trees, plan, toCapture, verdicts>>
    /\ UNCHANGED <<crawlVars, hashVars, parVars, dumpVars, readVars, stepVars>>

\* capture_all returns results, and run returns them
CaptureReturn ==
    /\ ppc = "capture_all"
    /\ capIdx > Len(toCapture)
    /\ ppc' = "returned"
    /\ UNCHANGED <<pipeline, analysis, states, stateIdx, keyIdx, prefs, outDir, wrote, executed,
                   failures, all_results, trees, plan, toCapture, verdicts, capIdx, results>>
    /\ UNCHANGED nonPipeVars

PipeNext ==
    \/ AnalyzeSource
    \/ ClearDefaults
    \/ SetDefault
    \/ TerminateApp
    \/ RunTest
    \/ CollectPass
    \/ PlanNavigation
    \/ Capture
    \/ CaptureScreen
    \/ CaptureReturn

PipeSpec == PipeInit /\ [][PipeNext]_vars

(***************************************************************************)
(* UIExplorer.explore with the test it runs: the passes of the driver on    *)
(* the onboarding app, each running the crawl on what the app shows under   *)
(* the preferences then in effect.                                          *)
(***************************************************************************)
\* the screen the onboarding app shows after a launch
Shown(p) == IF Item("onboardingDone") \in p THEN B_Tab1 ELSE B_Onboarding

\* saveScreenshot: NN-context.png per recorded Screen
PngsOf(rec) == {[number |-> rec[i].number, context |-> rec[i].context] : i \in 1 .. Len(rec)}

\* sorted(output_dir.glob("*.png")): by the two-digit number
SortedPngs(files) == [i \in 1 .. Cardinality(files) |-> CHOOSE f \in files : f.number = i]

\* the copies of one pass, named state_name + "_" + png.name
Copied(name, files) ==
    [i \in 1 .. Cardinality(files) |-> [state |-> name, png |-> SortedPngs(files)[i]]]

\* the screens of the configuration that are captured by launching the app
LaunchArgScreens ==
    UNION {[1 .. n -> {[name |-> "welcome", defaults |-> D_Empty],
                       [name |-> "home", defaults |-> D_Onboarded]}] : n \in 1 .. NumPasses}

RunInit ==
    /\ HashIdle
    /\ ParIdle
    /\ DumpIdle
    /\ ReadIdle
    /\ StepIdle
    /\ sim \in {"none", "leftover"}
    /\ root = B_Onboarding
    /\ maxDepth \in 0 .. MaxDepthArg
    /\ cur = B_Onboarding
    /\ ctr = 0
    /\ pc = "idle"
    /\ seenHashes = {}
    /\ screenCount = 0
    /\ recorded = <<>>
    /\ stack = <<>>
    /\ phase2Hash = NoHash
    /\ sinceLaunch = 0
    /\ pipeline \in {"explore", "capture"}
    /\ ppc = IF pipeline = "explore" THEN "clear" ELSE "launch_app"
    /\ analysis = <<>>
    /\ states = IF pipeline = "explore" THEN <<D_Empty, D_Onboarded>> ELSE <<>>
    /\ stateIdx = IF pipeline = "explore" THEN 1 ELSE 0
    /\ keyIdx = 0
    /\ prefs \in {{}, Items(D_Onboarded)}
    /\ outDir = {}
    /\ wrote = {}
    /\ executed = {}
    /\ failures = {}
    /\ all_results = <<>>
    /\ trees = <<>>
    /\ plan = <<>>
    /\ toCapture \in IF pipeline = "capture" THEN LaunchArgScreens ELSE {<<>>}
    /\ verdicts = <<>>
    /\ capIdx = IF pipeline = "capture" THEN 1 ELSE 0
    /\ results = <<>>

\* run_exploration: xcodebuild test-without-building starts test_explore on the app
BeginExploration ==
    /\ ppc = "run"
    /\ ppc' = "testing"
    /\ root' = Shown(prefs)
    /\ cur' = Shown(prefs)
    /\ ctr' = 0
    /\ pc' = "start"
    /\ seenHashes' = {}
    /\ screenCount' = 0
    /\ recorded' = <<>>
    /\ stack' = <<>>
    /\ phase2Hash' = NoHash
    /\ sinceLaunch' = 0
    /\ UNCHANGED <<maxDepth, pipeline, analysis, states, stateIdx, keyIdx, prefs, outDir, wrote,
                   executed, failures, all_results, trees, plan, toCapture, verdicts, capIdx,
                   results>>
    /\ UNCHANGED <<hashVars, sim, parVars, dumpVars, readVars, stepVars>>

\* run_exploration: the test has ended (check=False), its screenshots are in output_dir
EndExploration ==
    /\ ppc = "testing"
    /\ pc = "Done"
    /\ \E rc \in ExitCodes :
         failures' = IF rc = 0 THEN failures ELSE failures \cup {stateIdx}
    /\ outDir' = outDir \cup PngsOf(recorded)
    /\ wrote' = PngsOf(recorded)
    /\ executed' = executed \cup {stateIdx}
    /\ pc' = "idle"
    /\ ppc' = "collect"
    /\ UNCHANGED <<root, maxDepth, cur, ctr, seenHashes, screenCount, recorded, stack,
                   phase2Hash, sinceLaunch>>
    /\ UNCHANGED <<pipeline, analysis, states, stateIdx, keyIdx, prefs, all_results, trees,
                   plan, toCapture, verdicts, capIdx, results>>
    /\ UNCHANGED <<hashVars, sim, parVars, dumpVars, readVars, stepVars>>

\* explore: every screenshot of the pass is copied under state_name; then the next
\* pass, or all_results is returned
CollectScreens ==
    /\ ppc = "collect"
    /\ all_results' = all_results \o Copied(StateName(stateIdx - 1, states[stateIdx]), outDir)
    /\ stateIdx' = stateIdx + 1
    /\ ppc' = IF stateIdx < Len(states) THEN "clear" ELSE "returned"
    /\ UNCHANGED <<pipeline, analysis, states, keyIdx, prefs, outDir, wrote, executed, failures,
                   trees, plan, toCapture, verdicts, capIdx, results>>
    /\ UNCHANGED nonPipeVars

\* AppShotsCapture.capture, one launch-args screen up to launch_app: clear_defaults
\* (check=False), set_defaults (a failed write raises), launch_app (a failed launch
\* raises after the terminate)
LaunchApp ==
    /\ ppc = "launch_app"
    /\ capIdx <= Len(toCapture)
    /\ LET d == toCapture[capIdx].defaults
       IN  \E rc \in ExitCodes, nset \in 0 .. Len(d), launched \in BOOLEAN :
             /\ prefs' = WriteAll(IF rc = 0 THEN {} ELSE prefs, Prefix(d, nset))
             /\ IF nset < Len(d)
                THEN /\ ppc' = "raised"
                     /\ UNCHANGED <<sim, cur, sinceLaunch>>
                ELSE /\ sim' = IF launched THEN launch_app(sim) ELSE Terminate(sim)
                     /\ ppc' = IF launched THEN "screenshot" ELSE "raised"
                     /\ cur' = IF sim' = "fresh" THEN Shown(prefs') ELSE cur
                     /\ sinceLaunch' = IF sim' = "fresh" THEN 0 ELSE sinceLaunch
    /\ UNCHANGED <<root, maxDepth, ctr, pc, seenHashes, screenCount, recorded, stack,
                   phase2Hash>>
    /\ UNCHANGED <<pipeline, analysis, states, stateIdx, keyIdx, outDir, wrote, executed, failures,
                   all_results, trees, plan, toCapture, verdicts, capIdx, results>>
    /\ UNCHANGED <<hashVars, parVars, dumpVars, readVars, stepVars>>

\* AppShotsCapture.capture: take_screenshot (a failed command raises), then the next
\* screen, or the loop is over
TakeScreenshot ==
    /\ ppc = "screenshot"
    /\ \E rc \in ExitCodes :
         IF rc = 0
         THEN /\ results' = Append(results, toCapture[capIdx].name)
              /\ capIdx' = capIdx + 1
              /\ ppc' = IF capIdx < Len(toCapture) THEN "launch_app" ELSE "captured"
         ELSE /\ ppc' = "raised"
              /\ UNCHANGED <<results, capIdx>>
    /\ UNCHANGED <<pipeline, analysis, states, stateIdx, keyIdx, prefs, outDir, wrote, executed,
                   failures, all_results, trees, plan, toCapture, verdicts>>
    /\ UNCHANGED nonPipeVars

RunNext ==
    \/ LaunchApp
    \/ TakeScreenshot
    \/ ClearDefaults
    \/ SetDefault
    \/ TerminateApp
    \/ BeginExploration
    \/ Launch
    \/ ButtonStep
    \/ Recover
    \/ StartCells
    \/ CellStep
    \/ CellRecover
    \/ Return
    \/ SwipeLeft
    \/ SwipeRight
    \/ Summary
    \/ EndExploration
    \/ CollectScreens

RunSpec == RunInit /\ [][RunNext]_vars

(***************************************************************************)
(* The crawler.                                                             *)
(***************************************************************************)

\* C1: no two recorded Screens share a fingerprint, the recorded fingerprints are
\* exactly seenHashes (so a Screen is recorded only for a fingerprint not seen
\* before), and screenCount is the number of fingerprints in seenHashes.
DedupInvariant ==
    /\ \A i, j \in 1 .. Len(recorded) : i # j => recorded[i].hash # recorded[j].hash
    /\ {recorded[i].hash : i \in 1 .. Len(recorded)} = seenHashes
    /\ Len(recorded) = screenCount
    /\ screenCount = Cardinality(seenHashes)

\* a tap led to a screen recorded earlier, and it was not recorded again
DedupWitness ==
    /\ stack # <<>>
    /\ Top.state = "recover"
    /\ CurHash # Top.hashBefore
    /\ screenCount >= 2
    /\ \E i \in 1 .. Len(recorded) - 1 : recorded[i].hash = CurHash

\* C2: the number of recorded Screens never exceeds maxScreens.
CapRespected == screenCount <= maxScreens /\ Len(recorded) <= maxScreens

\* the swipe-left probe showed an unseen screen with maxScreens Screens recorded
CapWitness ==
    /\ pc = "swipedLeft"
    /\ screenCount = maxScreens
    /\ CurHash # phase2Hash
    /\ CurHash \notin seenHashes

\* C3: every Screen is recorded at most max_depth actions from the launch.
DepthBound == \A i \in 1 .. Len(recorded) : recorded[i].depth <= maxDepth

\* C4: a candidate tap that leaves the fingerprint as it was before the tap records
\* no Screen and does not reach the recursive call.
NoOpTapIdempotence ==
    [][(ButtonStep \/ CellStep) /\ CurHash' = CurHash
         => /\ screenCount' = screenCount
            /\ ~(Len(stack') >= Len(stack) /\ stack'[Len(stack)].state = "recover")]_vars

RelaunchLogged == \E o \in Outputs : o.kind = "relaunch"

\* C5: after a recovery the fingerprint is hashBefore again, or the app was
\* relaunched, the path to the parent screen (as many actions as the call's depth)
\* replayed and the relaunch logged.
RecoveryConvergence ==
    [][(Recover \/ CellRecover)
         => \/ CurHash' = Top.hashBefore
            \/ /\ sinceLaunch' = Top.depth
               /\ RelaunchLogged']_vars

\* C6: the pass ends, and on the way the open calls are bounded by the depth cap and
\* each call's candidates by the per-screen caps.
Termination ==
    /\ <>(pc = "Done")
    /\ [](/\ Len(stack) <= maxDepth
          /\ \A i \in 1 .. Len(stack) :
                /\ stack[i].depth < maxDepth
                /\ Len(stack[i].buttonLabels) <= max_actions
                /\ stack[i].bi <= Len(stack[i].buttonLabels) + 1
                /\ stack[i].nCells <= CellCap
                /\ stack[i].ci <= stack[i].nCells)

\* a pass on the feed, where no recovery succeeds, has ended
TerminationWitness == pc = "Done" /\ root = Feed /\ maxDepth = MaxDepthArg

(***************************************************************************)
(* The pipeline.                                                            *)
(***************************************************************************)
\* the element dumps of the states that hold the required defaults
DumpsFor(required) ==
    {trees[i].tree : i \in {j \in 1 .. Len(trees) :
        \E n \in 1 .. Len(states) : /\ trees[j].key = StateKey(n - 1, states[n])
                                     /\ Items(required) \subseteq Items(states[n])}}

SelectorDumped(required, selector) ==
    \E t \in DumpsFor(required) : t.captured /\ selector \in t.labels

\* C7: every selector of a screen handed to capture_all is in an element dump of a
\* state that holds the screen's defaults.
ReconcilerSoundness ==
    \A i \in 1 .. Len(toCapture) :
        \A k \in 1 .. Len(toCapture[i].navigation) :
            SelectorDumped(toCapture[i].defaults, toCapture[i].navigation[k])

\* C8: when the hybrid pipeline has returned, every screen of the analysis has a
\* screenshot in the results or an unreachable verdict with a reason.
NoSilentOmission ==
    (pipeline = "hybrid" /\ ppc = "returned")
        => \A i \in 1 .. Len(analysis) :
              \/ \E r \in 1 .. Len(results) : results[r] = analysis[i].name
              \/ \E v \in 1 .. Len(verdicts) :
                    verdicts[v].name = analysis[i].name /\ verdicts[v].reason # ""

\* C9: when the analysis names the premium screen with tap "Upgrade" and no dump of
\* a premium state holds "Upgrade", capture gives the screen an unreachable verdict
\* with a reason and does not hand it to capture_all.
ScenarioC ==
    (/\ ppc \in {"capture_all", "returned"}
     /\ \E i \in 1 .. Len(analysis) : analysis[i] = E_Paywall
     /\ ~SelectorDumped(E_Paywall.defaults, E_Paywall.tap))
        => /\ \A i \in 1 .. Len(toCapture) : toCapture[i].name # E_Paywall.name
           /\ \E v \in 1 .. Len(verdicts) :
                 verdicts[v].name = E_Paywall.name /\ verdicts[v].reason # ""

\* C10: when the driver loop is over, the test of every pass after a pass with a
\* failed command has been run.
PassIndependence ==
    ppc \in {"returned", "raised", "plan", "capture", "capture_all"}
        => \A i \in failures : \A j \in (i + 1) .. Len(states) : j \in executed

\* what explore hands to its caller: all_results when it returns, nothing when it raises
Delivered == IF pipeline = "explore" /\ ppc = "returned" THEN all_results ELSE <<>>

\* C11: when a pass of explore is aborted, the Screens collected up to then are in
\* the result explore delivers.
RetentionOnFailure ==
    (pipeline = "explore" /\ ppc = "raised")
        => \A i \in 1 .. Len(all_results) :
              \E j \in 1 .. Len(Delivered) : Delivered[j] = all_results[i]

\* C12: the WorldStates of the passes hold the empty WorldState, and it is the
\* first pass executed.
EmptyStateFirst ==
    ppc \in {"clear", "set", "run", "collect"}
        => /\ states[1] = D_Empty
           /\ (executed # {} => 1 \in executed)

\* the tag of the results of pass n: state_name in explore, state_key in dump_trees
TagOf(n) ==
    IF pipeline = "explore" THEN StateName(n - 1, states[n]) ELSE StateKey(n - 1, states[n])

\* C13: when the driver loop is over, two passes with different WorldStates have
\* tagged their results differently.
WorldStateTagging ==
    ppc \in {"returned", "plan"}
        => \A i, j \in executed : Items(states[i]) # Items(states[j]) => TagOf(i) # TagOf(j)

(***************************************************************************)
(* screenHash on snapshots of any length: up to MaxTail labels, alone or    *)
(* after as many labels as the prefix holds.                                *)
(***************************************************************************)
HashLabels == {L_Go, L_Row}
Tails == UNION {[1 .. n -> HashLabels] : n \in 0 .. MaxTail}
Pad(n) == [i \in 1 .. n |-> L_Go]
LabelLists(n) == Tails \cup {Pad(n) \o t : t \in Tails}

SnapshotInputs ==
    {[texts |-> t, buttons |-> [i \in 1 .. Len(b) |-> Btn(b[i], FALSE)], cells |-> c] :
        t \in LabelLists(TextPrefix), b \in LabelLists(ButtonPrefix),
        c \in {<<>>, <<Cell(L_Row)>>}}

HashInit ==
    /\ PipeIdle
    /\ ParIdle
    /\ DumpIdle
    /\ ReadIdle
    /\ StepIdle
    /\ sim = "none"
    /\ root = Home
    /\ maxDepth = 0
    /\ cur = Home
    /\ ctr = 0
    /\ pc = "idle"
    /\ seenHashes = {}
    /\ screenCount = 0
    /\ recorded = <<>>
    /\ stack = <<>>
    /\ phase2Hash = NoHash
    /\ sinceLaunch = 0
    /\ snapA \in SnapshotInputs
    /\ snapB \in SnapshotInputs
    /\ hashA = NoHash
    /\ hashB = NoHash

\* screenHash(app) on each of the two screens
HashBoth ==
    /\ hashA = NoHash
    /\ hashA' = screenHash(snapA)
    /\ hashB' = screenHash(snapB)
    /\ UNCHANGED <<snapA, snapB, crawlVars, pipeVars, sim, parVars, dumpVars, readVars, stepVars>>

HashNext == HashBoth

HashSpec == HashInit /\ [][HashNext]_vars

ButtonLabelsOf(snap) == [i \in 1 .. Len(snap.buttons) |-> snap.buttons[i].label]

SamePrefixes(s1, s2) ==
    /\ Prefix(s1.texts, TextPrefix) = Prefix(s2.texts, TextPrefix)
    /\ Prefix(ButtonLabelsOf(s1), ButtonPrefix) = Prefix(ButtonLabelsOf(s2), ButtonPrefix)

\* C14: two snapshots with the same first 20 static-text labels and the same first
\* 10 button labels have the same screenHash.
FingerprintDeterminism ==
    (hashA # NoHash /\ SamePrefixes(snapA, snapB)) => hashA = hashB

\* two snapshots that differ in the 21st text, in the 11th button and in the cells
FingerprintDeterminismWitness ==
    /\ hashA # NoHash
    /\ hashA = hashB
    /\ SamePrefixes(snapA, snapB)
    /\ Len(snapA.texts) > TextPrefix
    /\ Len(snapA.buttons) > ButtonPrefix
    /\ snapA.texts # snapB.texts
    /\ snapA.buttons # snapB.buttons
    /\ snapA.cells # snapB.cells

(***************************************************************************)
(* The crawl of the Settings/Help app.                                      *)
(***************************************************************************)
StaticHashes == {HashOf(App(root, 0)), HashOf(App(root + 1, 0)), HashOf(App(root + 2, 0))}

\* the crawl has ended with home, settings and help recorded, each at depth 0 or 1
ThreeScreens ==
    /\ screenCount = 3
    /\ Len(recorded) = 3
    /\ {recorded[i].hash : i \in 1 .. 3} = StaticHashes
    /\ Cardinality(StaticHashes) = 3
    /\ \A i \in 1 .. 3 : recorded[i].depth \in {0, 1}

\* the recovery after a child of home: tryGoBack shows home again and nothing is relaunched
HomeRecovered ==
    (stack # <<>> /\ Top.state = "recover" /\ Top.depth = 0)
        => \E b \in tryGoBack(App(cur, ctr)) :
              /\ HashOf(b) = Top.hashBefore
              /\ cur' = b.s
              /\ sinceLaunch' # 0

\* C15: on the app whose home has the buttons Settings and Help, each leading to a
\* static screen with a navigation-bar back button, a crawl with max_depth >= 1
\* records exactly the three Screens home, settings and help, each at depth 0 or 1,
\* and every recovery after a child of home shows home again without a relaunch.
ScenarioA ==
    /\ []((root \in StaticHomes /\ maxDepth >= 1 /\ pc = "Done") => ThreeScreens)
    /\ [][(root \in StaticHomes /\ maxDepth >= 1) => HomeRecovered]_vars

\* the crawl of the app with the titled back button ended with max_depth 2: the back
\* button was tapped as a candidate on the way
ScenarioAWitness ==
    /\ root = T_Home
    /\ maxDepth >= 2
    /\ pc = "Done"
    /\ screenCount = 3

(***************************************************************************)
(* The two passes on the onboarding app.                                    *)
(***************************************************************************)
\* the Screens explore reports under the tag of pass n
ReportedFor(n) ==
    {i \in 1 .. Len(all_results) : all_results[i].state = StateName(n - 1, states[n])}

\* pass 1 reports exactly one Screen and pass 2 at least three, under different tags
OneThenThree ==
    /\ Cardinality(ReportedFor(1)) = 1
    /\ Cardinality(ReportedFor(2)) >= 3
    /\ StateName(0, states[1]) # StateName(1, states[2])

CleanLaunch ==
    /\ (ppc = "testing" /\ pc = "start") => sim = "none"
    /\ (ppc = "testing" /\ pc # "start") => sim = "fresh"
    /\ ppc = "screenshot" => sim = "fresh"

\* the crawl of the second pass after the relaunch of phase 2: the instance of the
\* first pass was terminated by the driver, and the crawl has relaunched its own
CleanLaunchWitness ==
    /\ ppc = "testing"
    /\ stateIdx = 2
    /\ pc = "swipedRight"
    /\ screenCount >= 3
    /\ sim = "fresh"

(***************************************************************************)
(* Two runs of UIExplorer.explore at the same time, each against its own    *)
(* device, one pass each.  What they share is the file system: both use the *)
(* runner directory /tmp/appshots-explorer.  The simulator commands of a    *)
(* pass act on the run's own device and are left out.                       *)
(***************************************************************************)
ParInit ==
    /\ PipeIdle
    /\ HashIdle
    /\ DumpIdle
    /\ ReadIdle
    /\ StepIdle
    /\ sim = "none"
    /\ root = Home
    /\ maxDepth = 0
    /\ cur = Home
    /\ ctr = 0
    /\ pc = "idle"
    /\ seenHashes = {}
    /\ screenCount = 0
    /\ recorded = <<>>
    /\ stack = <<>>
    /\ phase2Hash = NoHash
    /\ sinceLaunch = 0
    /\ runPc = [r \in Runs |-> "create"]
    /\ runnerDir = NoDir
    /\ taken = [r \in Runs |-> {}]

ParFrame == UNCHANGED <<crawlVars, pipeVars, hashVars, sim, dumpVars, readVars, stepVars>>

\* create_explorer_project: rmtree of the runner directory if it exists, then the
\* project files and the empty Screenshots and Trees directories
CreateProject(r) ==
    /\ runPc[r] = "create"
    /\ runnerDir' = [project |-> r, test |-> 0, build |-> 0, shots |-> {}]
    /\ runPc' = [runPc EXCEPT ![r] = "generate"]
    /\ UNCHANGED taken
    /\ ParFrame

\* generate_explorer_test: write_text of ExplorerTests.swift, which raises if the
\* directory is gone
GenerateTest(r) ==
    /\ runPc[r] = "generate"
    /\ IF runnerDir.project = 0
       THEN /\ runPc' = [runPc EXCEPT ![r] = "raised"]
            /\ UNCHANGED runnerDir
       ELSE /\ runnerDir' = [runnerDir EXCEPT !.test = r]
            /\ runPc' = [runPc EXCEPT ![r] = "build"]
    /\ UNCHANGED taken
    /\ ParFrame

\* build_explorer: xcodebuild build-for-testing of the project in the runner
\* directory (run_cmd with check=True raises if it fails)
BuildExplorer(r) ==
    /\ runPc[r] = "build"
    /\ IF runnerDir.project = 0 \/ runnerDir.test = 0
       THEN /\ runPc' = [runPc EXCEPT ![r] = "raised"]
            /\ UNCHANGED runnerDir
       ELSE /\ runnerDir' = [runnerDir EXCEPT !.build = runnerDir.test]
            /\ runPc' = [runPc EXCEPT ![r] = "pass"]
    /\ UNCHANGED taken
    /\ ParFrame

\* explore, the pass up to run_exploration: every png in Screenshots is unlinked
BeginPass(r) ==
    /\ runPc[r] = "pass"
    /\ runnerDir' = [runnerDir EXCEPT !.shots = {}]
    /\ runPc' = [runPc EXCEPT ![r] = "run"]
    /\ UNCHANGED taken
    /\ ParFrame

\* run_exploration: raises without an .xctestrun file; else the test runs on the
\* run's device and saves its screenshots, if the directory is there
RunExploration(r) ==
    /\ runPc[r] = "run"
    /\ IF runnerDir.build = 0
       THEN /\ runPc' = [runPc EXCEPT ![r] = "raised"]
            /\ UNCHANGED runnerDir
       ELSE /\ runnerDir' = [runnerDir EXCEPT !.shots = @ \cup {r}]
            /\ runPc' = [runPc EXCEPT ![r] = "collect"]
    /\ UNCHANGED taken
    /\ ParFrame

\* explore: every png in Screenshots is copied to the output directory of the run
CollectRun(r) ==
    /\ runPc[r] = "collect"
    /\ taken' = [taken EXCEPT ![r] = runnerDir.shots]
    /\ runPc' = [runPc EXCEPT ![r] = "cleanup"]
    /\ UNCHANGED runnerDir
    /\ ParFrame

\* cleanup, from the finally of the command (also after a raise): rmtree
Cleanup(r) ==
    /\ runPc[r] \in {"cleanup", "raised"}
    /\ runnerDir' = NoDir
    /\ runPc' = [runPc EXCEPT ![r] = "done"]
    /\ UNCHANGED taken
    /\ ParFrame

ParNext ==
    \E r \in Runs :
        \/ CreateProject(r)
        \/ GenerateTest(r)
        \/ BuildExplorer(r)
        \/ BeginPass(r)
        \/ RunExploration(r)
        \/ CollectRun(r)
        \/ Cleanup(r)

ParSpec == ParInit /\ [][ParNext]_vars

\* the run has created its runner project and not yet cleaned up
Working(r) == runPc[r] \in {"generate", "build", "pass", "run", "collect", "cleanup"}

\* C18: while a run is working its runner project is its own (no other run has
\* deleted or overwritten it), its build is of its own test, and the screenshots it
\* collects are those of its own test run.
ParallelIndependence ==
    \A r \in Runs :
        /\ Working(r) => runnerDir.project = r
        /\ (Working(r) /\ runnerDir.build # 0) => runnerDir.build = r
        /\ taken[r] \subseteq {r}

(***************************************************************************)
(* test_dump_tree (hybrid.py), on an app given by how many elements of each *)
(* role it exposes, how many tab-bar buttons it has and, for an app without *)
(* tabs, which of its pages it shows after the launch (pages 0 .. 2, swipes *)
(* move between them).                                                      *)
(***************************************************************************)
\* min(app.<role>.count, cap) of the listing loops
DumpCaps ==
    [buttons |-> 50, texts |-> 50, tabs |-> 10, cells |-> 30, switches |-> 10, navbars |-> 5,
     navbtns |-> 10, images |-> 20, pickers |-> 5]

\* min(app.<role>.count, cap) of the loops run after the tap of a tab
TabCaps == [r \in Roles |-> IF r \in {"buttons", "texts"} THEN 30
                            ELSE IF r = "switches" THEN 10 ELSE 0]

\* min(app.<role>.count, 20) of the loops run after a swipe that changed the screen
SwipeCaps == [r \in Roles |-> IF r \in {"buttons", "texts"} THEN 20 ELSE 0]

\* how many elements of a role the app exposes
Exposed(a, r) == IF r = "tabs" THEN a.tabs ELSE a.elements

\* one pass of listing loops under the given caps
Listed(a, caps) == [r \in Roles |-> Min(Exposed(a, r), caps[r])]

Plus(i, j) == [r \in Roles |-> i[r] + j[r]]

LastPage == 2
\* app.swipeLeft(), app.swipeRight() on a paged app
PageLeft(q) == IF q < LastPage THEN q + 1 ELSE q
PageRight(q) == IF q > 0 THEN q - 1 ELSE q

DumpInit ==
    /\ PipeIdle
    /\ HashIdle
    /\ ParIdle
    /\ ReadIdle
    /\ StepIdle
    /\ sim = "none"
    /\ root = Home
    /\ maxDepth = 0
    /\ cur = Home
    /\ ctr = 0
    /\ pc = "idle"
    /\ seenHashes = {}
    /\ screenCount = 0
    /\ recorded = <<>>
    /\ stack = <<>>
    /\ phase2Hash = NoHash
    /\ sinceLaunch = 0
    /\ dumpApp \in {[elements |-> n, tabs |-> t, page |-> q] :
                        n \in {0, 3, MaxElements}, t \in {0, 3, MaxTabs}, q \in 0 .. LastPage}
    /\ dumpPc = "start"
    /\ tabIdx = 0
    /\ shown = IF dumpApp.tabs > 0 THEN 0 ELSE dumpApp.page
    /\ gestures = 0
    /\ inspected = NoneInspected

DumpFrame == UNCHANGED <<crawlVars, pipeVars, hashVars, sim, parVars, readVars, stepVars>>

\* test_dump_tree up to the per-tab loop: the launch, tree.txt, the listing loops
DumpListing ==
    /\ dumpPc = "start"
    /\ inspected' = Listed(dumpApp, DumpCaps)
    /\ dumpPc' = IF dumpApp.tabs > 0 THEN "tabs" ELSE "swipes"
    /\ UNCHANGED <<dumpApp, tabIdx, shown, gestures>>
    /\ DumpFrame

\* one iteration of for t in 0..<tabCount: the tab is tapped, then listed
DumpTab ==
    /\ dumpPc = "tabs"
    /\ tabIdx < dumpApp.tabs
    /\ shown' = tabIdx
    /\ gestures' = gestures + 1
    /\ inspected' = Plus([inspected EXCEPT !.tabs = @ + 1], Listed(dumpApp, TabCaps))
    /\ tabIdx' = tabIdx + 1
    /\ UNCHANGED <<dumpApp, dumpPc>>
    /\ DumpFrame

\* the app has no tab bar: swipeLeft and the listing if the texts changed, swipeRight
\* back, swipeRight and the listing if the texts are not those before the swipes
DumpSwipes ==
    /\ dumpPc = "swipes"
    /\ LET left == PageLeft(shown)
           back == PageRight(left)
           right == PageRight(back)
           afterLeft == IF left # shown THEN Plus(inspected, Listed(dumpApp, SwipeCaps))
                        ELSE inspected
       IN  /\ shown' = right
           /\ inspected' = IF right # shown THEN Plus(afterLeft, Listed(dumpApp, SwipeCaps))
                            ELSE afterLeft
    /\ gestures' = gestures + 3
    /\ dumpPc' = "save"
    /\ UNCHANGED <<dumpApp, tabIdx>>
    /\ DumpFrame

\* the screenshot tree-dump.png and elements.txt are written and the test ends
DumpSave ==
    /\ \/ dumpPc = "save"
       \/ dumpPc = "tabs" /\ tabIdx >= dumpApp.tabs
    /\ dumpPc' = "done"
    /\ UNCHANGED <<dumpApp, tabIdx, shown, gestures, inspected>>
    /\ DumpFrame

DumpNext ==
    \/ DumpListing
    \/ DumpTab
    \/ DumpSwipes
    \/ DumpSave

DumpSpec == DumpInit /\ [][DumpNext]_vars

\* the tab or page the app showed when the dump began
ShownAtLaunch == IF dumpApp.tabs > 0 THEN 0 ELSE dumpApp.page

\* C19: the element dump of test_dump_tree performs no tap and no swipe and leaves
\* the app on the screen it showed when the dump began.
SnapshotObservational == gestures = 0 /\ shown = ShownAtLaunch

\* C20: in one tree dump the tabs visited by the per-tab loop are at most as many as
\* the tab listing inspects, and the elements queried per role are at most the cap of
\* the listing plus the cap of the per-tab (or per-swipe) loops for that many tabs,
\* whatever the app exposes.
InspectionCap ==
    /\ tabIdx <= DumpCaps.tabs
    /\ \A r \in Roles :
          inspected[r] <= DumpCaps[r] + DumpCaps.tabs * (1 + TabCaps[r]) + 2 * SwipeCaps[r]

(***************************************************************************)
(* Reads and taps on a screen in motion.  The buttons of the screen may     *)
(* leave it one by one between any two steps of the test (an animation);    *)
(* those behind a button that left move up one index.  The test runs the    *)
(* button loop of saveElementList, then the candidate collection and the    *)
(* tap loop of exploreCurrentScreen.  element(boundBy: i) is resolved anew  *)
(* at every use; the use of an element that is not there (its label, a tap) *)
(* makes XCTest record a failure, after which the test goes on if           *)
(* continueAfterFailure is set and ends if it is not.  A missing element's  *)
(* label reads as the empty string.                                         *)
(***************************************************************************)
\* setUpWithError without the assignment: the XCTest default for UI tests
continueAfterFailureUnset == FALSE

\* setUpWithError: continueAfterFailure = true
continueAfterFailure == TRUE

\* the empty label
NoLabel == 0

\* app.buttons.element(boundBy: i).exists (every button shown is hittable)
Exists(i) == i < Len(elems)

\* the buttons without the j-th
Without(seq, j) == SubSeq(seq, 1, j - 1) \o SubSeq(seq, j + 1, Len(seq))

CrawlIdle ==
    /\ sim = "none"
    /\ root = Home
    /\ maxDepth = 0
    /\ cur = Home
    /\ ctr = 0
    /\ pc = "idle"
    /\ seenHashes = {}
    /\ screenCount = 0
    /\ recorded = <<>>
    /\ stack = <<>>
    /\ phase2Hash = NoHash
    /\ sinceLaunch = 0

ReadInit ==
    /\ PipeIdle
    /\ HashIdle
    /\ ParIdle
    /\ DumpIdle
    /\ CrawlIdle
    /\ StepIdle
    /\ elems \in {[i \in 1 .. n |-> i] : n \in 0 .. MaxShown}
    /\ rpc = "list_count"
    /\ ri = 0
    /\ rn = 0
    /\ lines = <<>>
    /\ cands = <<>>
    /\ tapped = <<>>
    /\ xcFailures = 0

ReadFrame == UNCHANGED <<crawlVars, pipeVars, hashVars, sim, parVars, dumpVars, stepVars>>

\* the animation: a button leaves the screen
Disappear ==
    /\ rpc \notin {"done", "aborted"}
    /\ \E j \in 1 .. Len(elems) : elems' = Without(elems, j)
    /\ UNCHANGED <<rpc, ri, rn, lines, cands, tapped, xcFailures>>
    /\ ReadFrame

\* saveElementList: for i in 0..<min(app.buttons.count, 30)
ListCount ==
    /\ rpc = "list_count"
    /\ rn' = Min(Len(elems), ListCap)
    /\ ri' = 0
    /\ rpc' = "list_exists"
    /\ UNCHANGED <<elems, lines, cands, tapped, xcFailures>>
    /\ ReadFrame

\* saveElementList: if el.exists && el.isHittable, or the loop is over
ListExists ==
    /\ rpc = "list_exists"
    /\ IF ri >= rn THEN rpc' = "collect_count" /\ ri' = ri
       ELSE IF Exists(ri) THEN rpc' = "list_label" /\ ri' = ri
       ELSE rpc' = rpc /\ ri' = ri + 1
    /\ UNCHANGED <<elems, rn, lines, cands, tapped, xcFailures>>
    /\ ReadFrame

\* saveElementList: elements.append("button[i]: label | id=...")
ListLabel ==
    /\ rpc = "list_label"
    /\ IF Exists(ri)
       THEN /\ lines' = Append(lines, [idx |-> ri, label |-> elems[ri + 1]])
            /\ ri' = ri + 1
            /\ rpc' = "list_exists"
            /\ UNCHANGED xcFailures
       ELSE /\ xcFailures' = xcFailures + 1
            /\ IF continueAfterFailure
               THEN /\ lines' = Append(lines, [idx |-> ri, label |-> NoLabel])
                    /\ ri' = ri + 1
                    /\ rpc' = "list_exists"
               ELSE /\ rpc' = "aborted"
                    /\ UNCHANGED <<lines, ri>>
    /\ UNCHANGED <<elems, rn, cands, tapped>>
    /\ ReadFrame

\* exploreCurrentScreen: for i in 0..<min(app.buttons.count, max_actions)
CollectCount ==
    /\ rpc = "collect_count"
    /\ rn' = Min(Len(elems), max_actions)
    /\ ri' = 0
    /\ rpc' = "collect_exists"
    /\ UNCHANGED <<elems, lines, cands, tapped, xcFailures>>
    /\ ReadFrame

\* exploreCurrentScreen: btn.exists && btn.isHittable, or the loop is over
CollectExists ==
    /\ rpc = "collect_exists"
    /\ IF ri >= rn THEN rpc' = "tap_guard" /\ ri' = 1
       ELSE IF Exists(ri) THEN rpc' = "collect_label" /\ ri' = ri
       ELSE rpc' = rpc /\ ri' = ri + 1
    /\ UNCHANGED <<elems, rn, lines, cands, tapped, xcFailures>>
    /\ ReadFrame

\* exploreCurrentScreen: !btn.label.isEmpty, the skip list, buttonLabels.append
CollectLabel ==
    /\ rpc = "collect_label"
    /\ IF Exists(ri)
       THEN /\ cands' = Append(cands, [idx |-> ri, label |-> elems[ri + 1]])
            /\ ri' = ri + 1
            /\ rpc' = "collect_exists"
            /\ UNCHANGED xcFailures
       ELSE /\ xcFailures' = xcFailures + 1
            /\ UNCHANGED cands
            /\ IF continueAfterFailure
               THEN ri' = ri + 1 /\ rpc' = "collect_exists"
               ELSE ri' = ri /\ rpc' = "aborted"
    /\ UNCHANGED <<elems, rn, lines, tapped>>
    /\ ReadFrame

\* exploreCurrentScreen: guard btn.exists && btn.isHittable else { continue }, or
\* the loop over buttonLabels is over
TapGuard ==
    /\ rpc = "tap_guard"
    /\ IF ri > Len(cands) THEN rpc' = "done" /\ ri' = ri
       ELSE IF Exists(cands[ri].idx) THEN rpc' = "tap" /\ ri' = ri
       ELSE rpc' = rpc /\ ri' = ri + 1
    /\ UNCHANGED <<elems, rn, lines, cands, tapped, xcFailures>>
    /\ ReadFrame

\* exploreCurrentScreen: btn.tap(); the screen does not change, so the loop goes on
Tap ==
    /\ rpc = "tap"
    /\ IF Exists(cands[ri].idx)
       THEN /\ tapped' = Append(tapped, elems[cands[ri].idx + 1])
            /\ ri' = ri + 1
            /\ rpc' = "tap_guard"
            /\ UNCHANGED xcFailures
       ELSE /\ xcFailures' = xcFailures + 1
            /\ UNCHANGED tapped
            /\ IF continueAfterFailure
               THEN ri' = ri + 1 /\ rpc' = "tap_guard"
               ELSE ri' = ri /\ rpc' = "aborted"
    /\ UNCHANGED <<elems, rn, lines, cands>>
    /\ ReadFrame

\* the steps of the test
ReadStep ==
    \/ ListCount
    \/ ListExists
    \/ ListLabel
    \/ CollectCount
    \/ CollectExists
    \/ CollectLabel
    \/ TapGuard
    \/ Tap

ReadNext == ReadStep \/ Disappear

ReadSpec == ReadInit /\ [][ReadNext]_vars

\* the running test always takes its next step
FairReadSpec == ReadSpec /\ WF_vars(ReadStep)

CandidateTap ==
    /\ ButtonStep
    /\ screenCount < maxScreens
    /\ ButtonHittable(App(cur, ctr), Top.buttonLabels[Top.bi].idx)

\* the step taps the cell the loop is at
CandidateCellTap ==
    /\ CellStep
    /\ screenCount < maxScreens
    /\ CellHittable(App(cur, ctr), Top.ci)

\* C22: every candidate of a call at depth d >= 1, also one that remained when a
\* recovery ended in the relaunch, is tapped after at least d actions since the last
\* launch (the path to its parent screen) and on the screen it was enumerated on: at
\* the tap the fingerprint is the hashBefore of its call.
ResumeAfterRelaunch ==
    [][((CandidateTap \/ CandidateCellTap) /\ Top.depth >= 1)
         => sinceLaunch >= Top.depth /\ CurHash = Top.hashBefore]_vars

(***************************************************************************)
(* Recovery.                                                                *)
(***************************************************************************)
\* the one strategy tryGoBack performs before it returns
Strategy(a) ==
    IF HasNavBack(a) THEN "navbar"
    ELSE IF HasLabel(a, L_Close) THEN "close"
    ELSE IF HasLabel(a, L_xmark) THEN "xmark"
    ELSE "swipeDown"

\* the recovery step ended in app.terminate(); app.launch()
Relaunched == (Recover \/ CellRecover) /\ sinceLaunch' = 0

\* C23: a recovery relaunches the app only after the strategies before the relaunch
\* have been tried in their order, down to the last of them, the swipe down: when the
\* tap on the navigation-bar button or on Close or xmark has not restored the parent
\* fingerprint, the next strategy is tried, not the relaunch.
RecoveryOrder == [][Relaunched => Strategy(App(cur, ctr)) = "swipeDown"]_vars

\* C24: no candidate tap lands on a button that carries, at the moment of the tap, one
\* of the labels Back, Cancel, Done, Close, whatever has happened to the screen since
\* the candidates were collected.
ReservedLabels ==
    [][CandidateTap
         => Buttons(App(cur, ctr))[Top.buttonLabels[Top.bi].idx + 1].label \notin SkipLabels]_vars

\* the screen shows the tab bar
HasTabBar(s) == s \in B_Tabs \cup {B_Detail}

\* C25: a call tries its button candidates before its cells, and the swipe-left /
\* swipe-right probes are applied only to a screen that shows no tab bar.
CandidatePriority ==
    /\ [][CandidateCellTap => Top.bi > Len(Top.buttonLabels)]_vars
    /\ [][SwipeLeft => ~HasTabBar(cur)]_vars
    /\ [][SwipeRight => ~HasTabBar(root)]_vars

\* C26: a button or cell candidate whose tap changes the fingerprint, with depth + 1
\* below max_depth and fewer than maxScreens Screens recorded, is followed by the
\* call of exploreCurrentScreen on the reached screen one depth deeper, and the
\* recovery of the candidate comes only after that call.
RecursionOnChange ==
    [][((CandidateTap \/ CandidateCellTap)
          /\ CurHash' # Top.hashBefore
          /\ Top.depth + 1 < maxDepth
          /\ screenCount' < maxScreens)
         => /\ Len(stack') = Len(stack) + 1
            /\ stack'[Len(stack')].depth = Top.depth + 1
            /\ stack'[Len(stack')].hashBefore = CurHash']_vars

\* C27: no candidate tap and no swipe probe is performed with maxScreens Screens
\* recorded, none by a call at depth max_depth or deeper, and no swipe probe (whose
\* screen would be at depth 1) with max_depth 0.
CapStopsExploration ==
    /\ [][(CandidateTap \/ CandidateCellTap \/ SwipeLeft \/ SwipeRight)
            => screenCount < maxScreens]_vars
    /\ [][(CandidateTap \/ CandidateCellTap) => Top.depth < maxDepth]_vars
    /\ [][(SwipeLeft \/ SwipeRight) => 0 < maxDepth]_vars

(***************************************************************************)
(* The boundary between the passes of the driver.                           *)
(***************************************************************************)
\* C28: a pass begins with the clear; the writes of its defaults come after the clear,
\* one key after the other; the terminate comes when every key has been written; the
\* test is started after the terminate; and the crawl takes steps only while the test
\* of the pass runs.
PassBoundaryOrder ==
    /\ [][(stateIdx' # stateIdx /\ stateIdx' <= Len(states)) => ppc' = "clear"]_vars
    /\ [][(ppc' = "set" /\ ppc # "set") => (ClearDefaults /\ keyIdx' = 1)]_vars
    /\ [][SetDefault => keyIdx' \in {keyIdx, keyIdx + 1}]_vars
    /\ [][(ppc' = "run" /\ ppc # "run") => (TerminateApp /\ keyIdx = Len(states[stateIdx]) + 1)]_vars
    /\ [][(ppc' = "testing" /\ ppc # "testing") => (BeginExploration /\ ppc = "run")]_vars
    /\ [][Next => ppc = "testing"]_vars

\* the crawl of the second pass is under way, after the key of its defaults was written
PassBoundaryOrderWitness ==
    /\ pipeline = "explore"
    /\ ppc = "testing"
    /\ stateIdx = 2
    /\ pc = "phase1"
    /\ prefs = Items(D_Onboarded)
    /\ sim = "fresh"

\* C29: at the moment the test run of a pass starts, the preference store of the app
\* holds exactly the key/value pairs of the WorldState of that pass, whatever the exit
\* status of the clear command of the pass was.
NoCarryOver == ppc = "run" => prefs = Items(states[stateIdx])

\* C30: two snapshots that differ in the first 20 static-text labels or in the first
\* 10 button labels give screenHash different hash input strings.
FingerprintSensitivity ==
    (hashA # NoHash /\ ~SamePrefixes(snapA, snapB)) => HashInput(snapA) # HashInput(snapB)

(***************************************************************************)
(* The generated tests, statement by statement.  A statement is named by    *)
(* its line in explorer.py (test_explore, exploreCurrentScreen, tryGoBack)  *)
(* or in hybrid.py (test_dump_tree).  Every condition on what the app shows *)
(* may go either way; the depth guard is decided by the depth argument.     *)
(* settled records whether a sleep has run since the last launch, tap or    *)
(* swipe.                                                                   *)
(***************************************************************************)
\* app.launch(), .tap(), app.swipeLeft/Right/Down()
ExploreActs == {238, 245, 251, 256, 278, 290, 299, 302, 341, 363, 377, 389}

\* the sleeps but the one after btn.tap()
ExploreSleepsNoTapWait == {239, 246, 252, 257, 279, 291, 300, 303, 358, 364, 378, 386, 390}

\* sleep(n)
ExploreSleeps == {239, 246, 252, 257, 279, 291, 300, 303, 342, 358, 364, 378, 386, 390}

\* screenHash(app), recordScreenIfNew(app, ...), .exists, .isHittable, .label, .count
ExploreReads ==
    {237, 244, 250, 282, 288, 292, 293, 304, 305, 319, 323, 325, 339, 344, 351, 361, 370, 374,
     376, 380, 384, 387}

\* exploreCurrentScreen(...), tryGoBack(app)
ExploreCalls == {285, 294, 306, 354, 357, 385}

\* the first statement of the function called
Callee(l) == IF l \in {357, 385} THEN 237 ELSE 316

\* the depth argument of the call, d being the depth of the caller
DepthArg(l, d) == IF l = 285 THEN 0 ELSE IF l \in {294, 306} THEN 1 ELSE IF l = 354 THEN d + 1 ELSE d

\* the closing brace of exploreCurrentScreen and of tryGoBack, and every return
ExploreReturns == {258, 394}

\* the next iteration of the cell loop, or its end
NextCell == {371, 394}

\* the statements that may follow the one at line l (for a call: after it returned)
ExploreFlow(l, d) ==
    CASE l = 278 -> {279} [] l = 279 -> {282} [] l = 282 -> {285} [] l = 285 -> {288}
      [] l = 288 -> {290} [] l = 290 -> {291} [] l = 291 -> {292} [] l = 292 -> {293, 298}
      [] l = 293 -> {294} [] l = 294 -> {298} [] l = 298 -> {299} [] l = 299 -> {300}
      [] l = 300 -> {302} [] l = 302 -> {303} [] l = 303 -> {304} [] l = 304 -> {305, 309}
      [] l = 305 -> {306} [] l = 306 -> {309} [] l = 309 -> {313}
      [] l = 316 -> IF d < maxDepth THEN {317} ELSE {394}
      [] l = 317 -> {319, 394} [] l = 319 -> {323} [] l = 323 -> {325, 335}
      [] l = 325 -> {325, 335} [] l = 335 -> {336, 370} [] l = 336 -> {339, 394}
      [] l = 339 -> {341, 335} [] l = 341 -> {342} [] l = 342 -> {344} [] l = 344 -> {351, 335}
      [] l = 351 -> {354} [] l = 354 -> {357} [] l = 357 -> {358} [] l = 358 -> {361}
      [] l = 361 -> {362, 335} [] l = 362 -> {363} [] l = 363 -> {364} [] l = 364 -> {335}
      [] l = 370 -> NextCell [] l = 371 -> {374, 394} [] l = 374 -> {376} \cup NextCell
      [] l = 376 -> {377} [] l = 377 -> {378} [] l = 378 -> {380}
      [] l = 380 -> {384} \cup NextCell [] l = 384 -> {385} [] l = 385 -> {386}
      [] l = 386 -> {387} [] l = 387 -> {388} \cup NextCell [] l = 388 -> {389}
      [] l = 389 -> {390} [] l = 390 -> NextCell
      [] l = 237 -> {238, 244} [] l = 238 -> {239} [] l = 239 -> {258}
      [] l = 244 -> {245, 250} [] l = 245 -> {246} [] l = 246 -> {258}
      [] l = 250 -> {251, 256} [] l = 251 -> {252} [] l = 252 -> {258}
      [] l = 256 -> {257} [] l = 257 -> {258}
      [] OTHER -> {}

\* test_dump_tree: app.launch(), tab.tap(), app.swipeLeft(), app.swipeRight()
DumpActs == {217, 310, 337, 359, 363}

\* test_dump_tree: sleep(n)
DumpSleeps == {218, 311, 338, 360, 364}

\* test_dump_tree: debugDescription and the listing loops (221), tabCount, tab.exists,
\* the loops after a tab (313), the static texts around the swipes, the loops after a
\* swipe (342, 368), the screenshot
DumpReads == {221, 305, 309, 313, 336, 339, 342, 365, 368, 386}

DumpFlow(l) ==
    CASE l = 217 -> {218} [] l = 218 -> {221} [] l = 221 -> {305} [] l = 305 -> {307, 336}
      [] l = 307 -> {309, 386} [] l = 309 -> {310, 307} [] l = 310 -> {311}
      [] l = 311 -> {313} [] l = 313 -> {307}
      [] l = 336 -> {337} [] l = 337 -> {338} [] l = 338 -> {339} [] l = 339 -> {342, 359}
      [] l = 342 -> {359} [] l = 359 -> {360} [] l = 360 -> {363} [] l = 363 -> {364}
      [] l = 364 -> {365} [] l = 365 -> {368, 386} [] l = 368 -> {386}
      [] l = 386 -> {393} [] l = 393 -> {394}
      [] OTHER -> {}

Acts == IF test = "explore" THEN ExploreActs ELSE DumpActs
Sleeps == IF test = "explore" THEN ExploreSleeps ELSE DumpSleeps
Reads == IF test = "explore" THEN ExploreReads ELSE DumpReads
Calls == IF test = "explore" THEN ExploreCalls ELSE {}
Returns == IF test = "explore" THEN ExploreReturns ELSE {}

\* the depth argument of the function the test is in
Depth == IF calls = <<>> THEN 0 ELSE calls[Len(calls)].depth

Flow == IF test = "explore" THEN ExploreFlow(at, Depth) ELSE DumpFlow(at)

\* the first statement of test_explore and of test_dump_tree
FirstLine(t) == IF t = "explore" THEN 278 ELSE 217

StepInit ==
    /\ PipeIdle
    /\ HashIdle
    /\ ParIdle
    /\ DumpIdle
    /\ ReadIdle
    /\ sim = "none"
    /\ root = Home
    /\ cur = Home
    /\ ctr = 0
    /\ pc = "idle"
    /\ seenHashes = {}
    /\ screenCount = 0
    /\ recorded = <<>>
    /\ stack = <<>>
    /\ phase2Hash = NoHash
    /\ sinceLaunch = 0
    /\ test \in {"explore", "dump"}
    /\ maxDepth \in IF test = "explore" THEN 0 .. MaxDepthArg ELSE {0}
    /\ at = FirstLine(test)
    /\ calls = <<>>
    /\ settled = FALSE

StepFrame == UNCHANGED <<crawlVars, pipeVars, hashVars, sim, parVars, dumpVars, readVars>>

\* a launch, a tap or a swipe: the app is in motion
Act ==
    /\ at \in Acts
    /\ at' \in Flow
    /\ settled' = FALSE
    /\ UNCHANGED <<test, calls>>
    /\ StepFrame

\* sleep(n)
Settle ==
    /\ at \in Sleeps
    /\ at' \in Flow
    /\ settled' = TRUE
    /\ UNCHANGED <<test, calls>>
    /\ StepFrame

\* a fingerprint or an element read, and the branch on what was read
Observe ==
    /\ at \in Reads
    /\ at' \in Flow
    /\ UNCHANGED <<test, calls, settled>>
    /\ StepFrame

\* a call of exploreCurrentScreen or of tryGoBack
Call ==
    /\ at \in Calls
    /\ \E ret \in Flow : calls' = Append(calls, [ret |-> ret, depth |-> DepthArg(at, Depth)])
    /\ at' = Callee(at)
    /\ UNCHANGED <<test, settled>>
    /\ StepFrame

\* the function returns to its caller
ReturnStep ==
    /\ at \in Returns
    /\ at' = calls[Len(calls)].ret
    /\ calls' = SubSeq(calls, 1, Len(calls) - 1)
    /\ UNCHANGED <<test, settled>>
    /\ StepFrame

\* a guard, a loop head, app.terminate(), a file written
Skip ==
    /\ test # "none"
    /\ at \notin Acts \cup Sleeps \cup Reads \cup Calls \cup Returns
    /\ at' \in Flow
    /\ UNCHANGED <<test, calls, settled>>
    /\ StepFrame

StepNext ==
    \/ Act
    \/ Settle
    \/ Observe
    \/ Call
    \/ ReturnStep
    \/ Skip

StepSpec == StepInit /\ [][StepNext]_vars

\* C31: in the crawler and in the tree dump, whenever the test is about to take a
\* fingerprint or read an element, a settle wait has run since the last launch, tap
\* or swipe.
SettleBeforeObserve == at \in Reads => settled

\* the crawler, two calls deep, compares the fingerprint after tryGoBack tapped and
\* both waits have run
SettleBeforeObserveWitness ==
    /\ test = "explore"
    /\ at = 361
    /\ Len(calls) >= 2
    /\ settled

\* C32: what a pass attributes to its WorldState was written by the test run of that
\* pass: explore records a screenshot for the pass only if the run wrote it, and
\* dump_trees stores for the state the element list the run wrote, or the text for
\* none when the run wrote nothing, whatever earlier passes left.
ArtefactAttribution ==
    [][CollectPass =>
         IF pipeline = "explore"
         THEN all_results' # all_results => Png \in wrote
         ELSE trees' = PutTree(trees, StateKey(stateIdx - 1, states[stateIdx]), TreeOf(wrote))]_vars

\* the first pass of dump_trees stored an element list, the run of the second pass
\* wrote nothing and the second state holds the text for no elements
ArtefactAttributionWitness ==
    /\ pipeline = "hybrid"
    /\ ppc = "plan"
    /\ Len(states) = 2
    /\ Len(trees) = 2
    /\ trees[1].tree.captured
    /\ ~trees[2].tree.captured
    /\ wrote = {}

\* the plan marks the screen reachable: false
MarkedFalse(e) == e.reachable = "false"
NotMarkedFalse(e) == ~MarkedFalse(e)

\* C33: once capture has split the plan, every planned screen is either handed to
\* capture_all or logged as unreachable and never both; the screens handed over are
\* those not marked reachable: false (a missing flag counts as reachable), in plan
\* order; no test is run and no screenshot reported for a screen marked false.
UnreachableNeverReplayed ==
    /\ [](capIdx >= 1 =>
            /\ \A i \in 1 .. Len(plan) :
                  (\E j \in 1 .. Len(toCapture) : toCapture[j] = plan[i])
                      # (\E v \in 1 .. Len(verdicts) : verdicts[v].name = plan[i].name)
            /\ toCapture = SelectSeq(plan, NotMarkedFalse)
            /\ \A v \in 1 .. Len(verdicts) :
                  \E i \in 1 .. Len(plan) : MarkedFalse(plan[i]) /\ plan[i].name = verdicts[v].name
            /\ \A r \in 1 .. Len(results) :
                  \E i \in 1 .. Len(plan) : NotMarkedFalse(plan[i]) /\ plan[i].name = results[r])
    /\ [][CaptureScreen => NotMarkedFalse(toCapture[capIdx])]_vars

\* a plan of a screen marked false and a screen without the flag: the second alone was
\* handed over, run and captured, the first was logged
UnreachableNeverReplayedWitness ==
    /\ pipeline = "hybrid"
    /\ ppc = "returned"
    /\ Len(plan) = 2
    /\ plan[1].reachable = "false"
    /\ plan[2].reachable = "absent"
    /\ toCapture = <<plan[2]>>
    /\ results = <<plan[2].name>>
    /\ Len(verdicts) = 1

(***************************************************************************)
(* analyze_source on any analysis of up to MaxAnalysed screens whose        *)
(* defaults are any of the dicts, one of them with its keys in either       *)
(* order.                                                                   *)
(***************************************************************************)
D_BothReversed == <<Item("premium"), Item("onboardingDone")>>

AnalysedScreens ==
    {[name |-> "screen", defaults |-> d, tap |-> "Settings"] : d \in Dicts \cup {D_BothReversed}}

WideAnalyses == UNION {[1 .. n -> AnalysedScreens] : n \in 0 .. MaxAnalysed}

AnalyzeInit ==
    /\ PipeInit
    /\ pipeline = "hybrid"
    /\ sim = "none"
    /\ prefs = {}

\* HybridCapture.analyze_source, whatever screens the analysis names
AnalyzeWide ==
    /\ ppc = "analyze"
    /\ \E screens \in WideAnalyses :
         /\ analysis' = screens
         /\ states' = ExtractStates(screens, <<D_Empty>>)
    /\ stateIdx' = 1
    /\ ppc' = "clear"
    /\ UNCHANGED <<pipeline, keyIdx, prefs, outDir, wrote, executed, failures, all_results,
                   trees, plan, toCapture, verdicts, capIdx, results>>
    /\ UNCHANGED nonPipeVars

AnalyzeSpec == AnalyzeInit /\ [][AnalyzeWide]_vars

\* the first screen of the analysis that requires the pairs of d
FirstRequiring(d) ==
    CHOOSE k \in 1 .. Len(analysis) :
        /\ Items(analysis[k].defaults) = Items(d)
        /\ \A j \in 1 .. (k - 1) : Items(analysis[j].defaults) # Items(d)

\* C34: the states list of analyze_source starts with the empty WorldState, holds no
\* two WorldStates with the same key/value pairs, holds the pairs of every non-empty
\* defaults mapping of an analysed screen, and holds nothing else, each mapping as
\* the first screen requiring it gave it and in the order of these first screens.
StatesDeduplicated ==
    ppc = "clear" =>
        /\ states[1] = D_Empty
        /\ \A i, j \in 1 .. Len(states) : i # j => Items(states[i]) # Items(states[j])
        /\ \A k \in 1 .. Len(analysis) :
              \E i \in 1 .. Len(states) : Items(states[i]) = Items(analysis[k].defaults)
        /\ \A i \in 2 .. Len(states) :
              /\ \E k \in 1 .. Len(analysis) : Items(analysis[k].defaults) = Items(states[i])
              /\ states[i] = analysis[FirstRequiring(states[i])].defaults
        /\ \A i, j \in 2 .. Len(states) :
              i < j => FirstRequiring(states[i]) < FirstRequiring(states[j])

\* three screens: two require the same pairs with the keys in different order, the
\* third requires premium alone; the list holds the empty state and two more
StatesDeduplicatedWitness ==
    /\ ppc = "clear"
    /\ Len(analysis) = 3
    /\ analysis[1].defaults = D_Both
    /\ analysis[2].defaults = D_BothReversed
    /\ analysis[3].defaults = D_Premium
    /\ states = <<D_Empty, D_Both, D_Premium>>

(***************************************************************************)
(* XCTestCapture.capture_all on any list of up to MaxCaptured screens, two  *)
(* of which may have the same name.                                         *)
(***************************************************************************)
CapturedScreens ==
    {[name |-> n, defaults |-> d, navigation |-> <<>>, reachable |-> "true", reason |-> NoReason] :
        n \in {"home", "paywall"}, d \in {D_Empty, D_Premium}}

CaptureLists == UNION {[1 .. n -> CapturedScreens] : n \in 0 .. MaxCaptured}

CaptureInit ==
    /\ CrawlIdle
    /\ HashIdle
    /\ ParIdle
    /\ DumpIdle
    /\ ReadIdle
    /\ StepIdle
    /\ pipeline = "hybrid"
    /\ ppc = "capture_all"
    /\ analysis = <<>>
    /\ states = <<D_Empty>>
    /\ stateIdx = 2
    /\ keyIdx = 1
    /\ prefs \in {{}, Items(D_Premium)}
    /\ outDir = {}
    /\ wrote = {}
    /\ executed = {1}
    /\ failures = {}
    /\ all_results = <<>>
    /\ trees = <<>>
    /\ toCapture \in CaptureLists
    /\ plan = toCapture
    /\ verdicts = <<>>
    /\ capIdx = 1
    /\ results = <<>>

CaptureNext == CaptureScreen \/ CaptureReturn

CaptureSpec == CaptureInit /\ [][CaptureNext]_vars

\* C35: capture_all reports a screen only if the test run of that screen wrote its
\* screenshot, and reports at most one entry per screen whose test it has run.
CaptureGenuine ==
    /\ [][(CaptureScreen /\ results' # results) => ShotFile(toCapture[capIdx].name) \in wrote']_vars
    /\ [](capIdx >= 1 => Len(results) <= capIdx - 1)

\* C36: in every pass the first Screen recorded is the screen the app shows after the
\* launch, recorded as number 1 with the context "initial" before any tap or swipe of
\* the exploration; so every pass whose test has run ends with at least one recorded
\* Screen, and explore collects at least one screenshot for it.
RootFirst ==
    /\ [](pc \notin {"start", "idle"} =>
            /\ recorded # <<>>
            /\ recorded[1].number = 1
            /\ recorded[1].context = Context("initial", <<>>)
            /\ recorded[1].hash = HashOf(App(root, 0)))
    /\ [](ppc = "testing" => root = Shown(prefs))
    /\ [][(ButtonStep \/ Recover \/ CellStep \/ CellRecover \/ SwipeLeft \/ SwipeRight)
            => recorded # <<>>]_vars
    /\ [][CollectScreens => Len(all_results') > Len(all_results)]_vars

\* the second pass has ended: the tab screen shown at the launch is its first Screen,
\* the Screens found by taps come after it, and all were collected
RootFirstWitness ==
    /\ ppc = "returned"
    /\ executed = {1, 2}
    /\ Len(recorded) >= 2
    /\ recorded[1].hash = HashOf(App(B_Tab1, 0))
    /\ recorded[1].context = Context("initial", <<>>)
    /\ Len(all_results) >= 3

====
